---- MODULE Spec2Model ----
(***************************************************************************)
(* gif2video: the two MP4 muxers that are compiled to WASM.                *)
(*                                                                         *)
(*   - the multi-frame raw muxer  (init_encoder / add_frame /              *)
(*     get_video_buffer / get_video_size / finalize_video / cleanup),      *)
(*     which stores RGB24 frames with a delay each and writes              *)
(*     ftyp, moov, mdat;                                                   *)
(*   - the compressed (WebCodecs, H.264) muxer (init_webcodecs_muxer /     *)
(*     set_decoder_config / add_h264_frame / finalize_webcodecs_mp4 /      *)
(*     cleanup_webcodecs_muxer), which writes ftyp, mdat, moov.            *)
(*                                                                         *)
(* Output buffers are modelled byte by byte: a buffer is the sequence of   *)
(* the bytes written so far, its size and its capacity.  Every integer     *)
(* keeps the width it has in the C code (uint8/uint16/uint32).             *)
(* In specification Spec every malloc/realloc succeeds.                    *)
(***************************************************************************)
EXTENDS Integers, Sequences, FiniteSets, TLC

\* ------------------------------------------------------------------ bounds
\* Frames accepted per session of the raw muxer (add_frame has no ceiling).
MaxRawFrames == 3
\* Frames accepted per session of the compressed muxer (the code's ceiling
\* is MAX_FRAMES = 10000).
MaxWcFrames == 3
\* finalize_webcodecs_mp4 calls per session (each call appends to the output).
MaxWcFinalize == 2
\* Longest array handed to the table writers in SpecTables.
MaxTableLen == 5

\* ------------------------------------------------------------------ inputs
Widths == {1, 2}
Heights == {1, 2}
FpsValues == {10}
\* delay_ms arguments of add_frame (0 selects the 100 ms default).
Delays == {0, 10}
\* first byte of the RGBA test pattern of a frame
PixelSeeds == {16}
\* encoded chunks handed to add_h264_frame: the payload, the timestamp in
\* microseconds and the keyframe flag
Chunks ==
  { [data |-> <<101>>, timestamp |-> 0, is_keyframe |-> 1],
    [data |-> <<102, 103>>, timestamp |-> 0, is_keyframe |-> 0],
    [data |-> <<104>>, timestamp |-> 100000, is_keyframe |-> 0] }
\* dimensions handed to init_webcodecs_muxer
WcWidths == {2}
WcHeights == {1}
\* avcC records handed to set_decoder_config
Configs == {<<1, 100, 0, 31, 255, 224, 0, 9>>}
\* arrays handed to wr_stts / wr_stsz / write_stsz in SpecTables
TableValues == {10, 20, 100, 150}

\* ------------------------------------------------------------- C integers
U16 == 65536
U8 == 256

\* A uint32_t is the pair <<high 16 bits, low 16 bits>>, so that arithmetic
\* modulo 2^32 stays inside the model checker's integers.
\* to_u32(v): the uint32_t holding the non-negative integer v (v < 2^31)
to_u32(v) == << (v \div U16) % U16, v % U16 >>
\* the integer a uint32_t holds (defined below 2^31)
u32_int(a) == a[1] * U16 + a[2]
u32_add(a, b) ==
  LET lo == a[2] + b[2]
  IN  << (a[1] + b[1] + lo \div U16) % U16, lo % U16 >>
u32_sub(a, b) ==
  LET lo == a[2] - b[2]
      borrow == IF lo < 0 THEN 1 ELSE 0
  IN  << (a[1] - b[1] - borrow + 2 * U16) % U16, (lo + U16) % U16 >>
\* a * k modulo 2^32, for a multiplier k < 2^15
u32_mul(a, k) ==
  LET lo == a[2] * k
  IN  << (a[1] * k + lo \div U16) % U16, lo % U16 >>
\* a / d (unsigned division), for a divisor 0 < d < 2^15
u32_div(a, d) ==
  << a[1] \div d, ((a[1] % d) * U16 + a[2]) \div d >>
\* v << 16 for a uint32_t v
u32_shl16(a) == << a[2], 0 >>

\* a NULL pointer; a non-NULL pointer p to an object o is <<o>>
NULL == <<>>
Ptr(o) == <<o>>
Deref(p) == p[1]

\* the bytes of a C string literal used as a box type or brand
fourcc(s) ==
  CASE s = "ftyp" -> <<102, 116, 121, 112>>
    [] s = "isom" -> <<105, 115, 111, 109>>
    [] s = "iso2" -> <<105, 115, 111, 50>>
    [] s = "avc1" -> <<97, 118, 99, 49>>
    [] s = "mp41" -> <<109, 112, 52, 49>>
    [] s = "mdat" -> <<109, 100, 97, 116>>
    [] s = "moov" -> <<109, 111, 111, 118>>
    [] s = "mvhd" -> <<109, 118, 104, 100>>
    [] s = "trak" -> <<116, 114, 97, 107>>
    [] s = "tkhd" -> <<116, 107, 104, 100>>
    [] s = "mdia" -> <<109, 100, 105, 97>>
    [] s = "mdhd" -> <<109, 100, 104, 100>>
    [] s = "hdlr" -> <<104, 100, 108, 114>>
    [] s = "vide" -> <<118, 105, 100, 101>>
    [] s = "minf" -> <<109, 105, 110, 102>>
    [] s = "vmhd" -> <<118, 109, 104, 100>>
    [] s = "dinf" -> <<100, 105, 110, 102>>
    [] s = "dref" -> <<100, 114, 101, 102>>
    [] s = "url " -> <<117, 114, 108, 32>>
    [] s = "stbl" -> <<115, 116, 98, 108>>
    [] s = "stsd" -> <<115, 116, 115, 100>>
    [] s = "raw " -> <<114, 97, 119, 32>>
    [] s = "stts" -> <<115, 116, 116, 115>>
    [] s = "stsc" -> <<115, 116, 115, 99>>
    [] s = "stsz" -> <<115, 116, 115, 122>>
    [] s = "stco" -> <<115, 116, 99, 111>>
    [] s = "stss" -> <<115, 116, 115, 115>>
    [] s = "avcC" -> <<97, 118, 99, 67>>
    [] s = "VideoHandler" -> <<86, 105, 100, 101, 111, 72, 97, 110, 100, 108, 101, 114, 0>>

\* the big-endian bytes of a uint32 / uint16, as the shifts of wr_u32 / wr_u16 store them
be32(a) == << a[1] \div U8, a[1] % U8, a[2] \div U8, a[2] % U8 >>
be16(v) == << (v \div 256) % U8, v % U8 >>

\* ======================================================== call sequences ==
\* A box writer of either muxer is a straight run of calls on one buffer.  It is
\* modelled as the sequence of those calls, in program order:
\*   <<"u8", v>>  <<"u16", v>>  <<"u32", v>>  <<"bytes", d>>   a write
\*   <<"box_start", type, local>>   local = box_start(buf, type)
\*   <<"box_end", local>>           box_end(buf, local)
\* where local names the size_t variable of the C function that holds the offset.
u8(v) == <<"u8", v>>
u16(v) == <<"u16", v>>
u32(v) == <<"u32", to_u32(v)>>
u32l(a) == <<"u32", a>>
bytes(d) == <<"bytes", d>>
start(type, local) == <<"box_start", type, local>>
fin(local) == <<"box_end", local>>
rep(n, op) == [i \in 1..n |-> op]

\* the value of the local variable `local` after it is assigned off
SetLocal(locals, local, off) ==
  [n \in DOMAIN locals \cup {local} |-> IF n = local THEN off ELSE locals[n]]

\* a buffer being written, with the offsets held in local variables
Writer(buf) == [buf |-> buf, locals |-> [n \in {} |-> 0]]

\* ============================================================ raw muxer ==
\* Mp4Buf: data holds the size bytes written so far.
buf_init(cap) == [data |-> <<>>, size |-> 0, capacity |-> cap]

buf_ensure(b, add) ==
  IF b.size + add > b.capacity
    THEN [b EXCEPT !.capacity = (b.size + add) * 2]
    ELSE b

wr_bytes(b, d) ==
  LET e == buf_ensure(b, Len(d))
  IN  [e EXCEPT !.data = @ \o d, !.size = @ + Len(d)]

wr_u32(b, v) ==
  LET e == buf_ensure(b, 4)
  IN  [e EXCEPT !.data = @ \o be32(v), !.size = @ + 4]

wr_u16(b, v) ==
  LET e == buf_ensure(b, 2)
  IN  [e EXCEPT !.data = @ \o be16(v % U16), !.size = @ + 2]

wr_u8(b, v) ==
  LET e == buf_ensure(b, 1)
  IN  [e EXCEPT !.data = Append(@, v % U8), !.size = @ + 1]

\* box_start returns the offset b.size and leaves the buffer below
box_start(b, type) == wr_bytes(wr_u32(b, to_u32(0)), fourcc(type))

\* box_end with the fault of storing the end offset b.size instead of the length
box_end_stores_end(b, off) ==
  [b EXCEPT !.data = SubSeq(@, 1, off) \o be32(to_u32(b.size))
                     \o SubSeq(@, off + 5, Len(@))]

\* box_end overwrites the four bytes at off with the big-endian b.size - off
box_end(b, off) ==
  [b EXCEPT !.data = SubSeq(@, 1, off) \o be32(to_u32(b.size - off))
                     \o SubSeq(@, off + 5, Len(@))]

\* one call of a raw-muxer call sequence
wr_call(w, op) ==
  CASE op[1] = "u8" -> [w EXCEPT !.buf = wr_u8(@, op[2])]
    [] op[1] = "u16" -> [w EXCEPT !.buf = wr_u16(@, op[2])]
    [] op[1] = "u32" -> [w EXCEPT !.buf = wr_u32(@, op[2])]
    [] op[1] = "bytes" -> [w EXCEPT !.buf = wr_bytes(@, op[2])]
    [] op[1] = "box_start" -> [buf |-> box_start(w.buf, op[2]),
                               locals |-> SetLocal(w.locals, op[3], w.buf.size)]
    [] op[1] = "box_end" -> [w EXCEPT !.buf = box_end(@, w.locals[op[2]])]

\* the calls ops[lo..hi] in program order: the first half runs to completion, then
\* the second half (a call never shrinks the buffer, so the size test always holds;
\* it makes the evaluation finish the first half before it starts the second)
RECURSIVE wr_run(_, _, _, _)
wr_run(w, ops, lo, hi) ==
  IF lo > hi THEN w
  ELSE IF lo = hi THEN wr_call(w, ops[lo])
  ELSE LET mid == (lo + hi) \div 2
           first == wr_run(w, ops, lo, mid)
       IN  IF first.buf.size >= w.buf.size THEN wr_run(first, ops, mid + 1, hi) ELSE first

wr_all(w, ops) == wr_run(w, ops, 1, Len(ops))

\* uint32_t matrix[9] of wr_mvhd / wr_tkhd
matrix == <<65536, 0, 0, 0, 65536, 0, 0, 0, 1073741824>>

\* rgba_to_rgb24: copies R, G, B of every pixel and skips A
rgba_to_rgb24(rgba, width, height) ==
  [data |-> [k \in 1..(width * height * 3) |->
               rgba[((k - 1) \div 3) * 4 + ((k - 1) % 3) + 1]],
   size |-> width * height * 3]

\* wr_ftyp with the fault of writing the brands without the box header
wr_ftyp_headerless ==
  << bytes(fourcc("isom")), u32(512),
     bytes(fourcc("isom") \o fourcc("iso2") \o fourcc("avc1") \o fourcc("mp41")) >>

wr_ftyp ==
  << start("ftyp", "wr_ftyp.s"), bytes(fourcc("isom")), u32(512),
     bytes(fourcc("isom") \o fourcc("iso2") \o fourcc("avc1") \o fourcc("mp41")),
     fin("wr_ftyp.s") >>

\* frames: the frame payloads, frame_sizes: their sizes
wr_mdat(frames, frame_sizes, frame_count) ==
  << start("mdat", "wr_mdat.s") >>
  \o [i \in 1..frame_count |-> bytes(SubSeq(frames[i], 1, frame_sizes[i]))]
  \o << fin("wr_mdat.s") >>

wr_mvhd(scale, dur) ==
  << start("mvhd", "wr_mvhd.s"),
     u8(0), u8(0), u8(0), u8(0), u32(0), u32(0), u32(scale), u32l(dur),
     u32(65536), u16(256), u16(0), u32(0), u32(0) >>
  \o [i \in 1..9 |-> u32(matrix[i])]
  \o rep(6, u32(0))
  \o << u32(2), fin("wr_mvhd.s") >>

wr_tkhd(dur, w, h) ==
  << start("tkhd", "wr_tkhd.s"),
     u8(0), u8(0), u8(0), u8(7), u32(0), u32(0), u32(1), u32(0), u32l(dur),
     u32(0), u32(0), u16(0), u16(0), u16(0), u16(0) >>
  \o [i \in 1..9 |-> u32(matrix[i])]
  \o << u32l(u32_shl16(to_u32(w))), u32l(u32_shl16(to_u32(h))), fin("wr_tkhd.s") >>

wr_mdhd(scale, dur) ==
  << start("mdhd", "wr_mdhd.s"),
     u8(0), u8(0), u8(0), u8(0), u32(0), u32(0), u32(scale), u32l(dur),
     u16(21956), u16(0), fin("wr_mdhd.s") >>

wr_hdlr ==
  << start("hdlr", "wr_hdlr.s"),
     u8(0), u8(0), u8(0), u8(0), u32(0), bytes(fourcc("vide")),
     u32(0), u32(0), u32(0), bytes(fourcc("VideoHandler")), fin("wr_hdlr.s") >>

wr_vmhd ==
  << start("vmhd", "wr_vmhd.s"),
     u8(0), u8(0), u8(0), u8(1), u16(0), u16(0), u16(0), u16(0), fin("wr_vmhd.s") >>

wr_dref ==
  << start("dref", "wr_dref.s"), u8(0), u8(0), u8(0), u8(0), u32(1),
     start("url ", "wr_dref.url_s"), u8(0), u8(0), u8(0), u8(1), fin("wr_dref.url_s"),
     fin("wr_dref.s") >>

wr_stsd(w, h) ==
  << start("stsd", "wr_stsd.s"), u8(0), u8(0), u8(0), u8(0), u32(1),
     start("raw ", "wr_stsd.raw_s"),
     u16(0), u16(0), u16(0), u16(1), u16(0), u16(0),
     u32(0), u32(0), u32(0), u16(w), u16(h),
     u32(4718592), u32(4718592), u32(0), u16(1) >>
  \o rep(32, u8(0))
  \o << u16(24), u16(65535), fin("wr_stsd.raw_s"), fin("wr_stsd.s") >>

\* the inner while loop with the fault of never extending a run
stts_run_single(deltas, count, i, sample_count) == sample_count

\* the inner while loop of wr_stts: the length of the run of equal deltas starting at i
RECURSIVE stts_run(_, _, _, _)
stts_run(deltas, count, i, sample_count) ==
  IF i + sample_count < count /\ deltas[i + sample_count + 1] = deltas[i + 1]
    THEN stts_run(deltas, count, i, sample_count + 1)
    ELSE sample_count

\* the first for loop of wr_stts: counts the entries
RECURSIVE stts_entry_count(_, _, _, _)
stts_entry_count(deltas, count, i, entry_count) ==
  IF i >= count THEN entry_count
  ELSE stts_entry_count(deltas, count, i + stts_run(deltas, count, i, 1), entry_count + 1)

\* the second for loop of wr_stts: writes the entries
RECURSIVE stts_write(_, _, _)
stts_write(deltas, count, i) ==
  IF i >= count THEN << >>
  ELSE LET sample_count == stts_run(deltas, count, i, 1)
           sample_delta == deltas[i + 1]
       IN  << u32(sample_count), u32(sample_delta) >>
           \o stts_write(deltas, count, i + sample_count)

wr_stts(deltas, count) ==
  << start("stts", "wr_stts.s"), u8(0), u8(0), u8(0), u8(0),
     u32(stts_entry_count(deltas, count, 0, 0)) >>
  \o stts_write(deltas, count, 0)
  \o << fin("wr_stts.s") >>

wr_stsc(count) ==
  << start("stsc", "wr_stsc.s"),
     u8(0), u8(0), u8(0), u8(0), u32(1), u32(1), u32(count), u32(1), fin("wr_stsc.s") >>

\* the all_same scan of wr_stsz
stsz_all_same(sample_sizes, count) ==
  \A i \in 1..(count - 1) : sample_sizes[i + 1] = sample_sizes[1]

\* wr_stsz with the fault of ignoring all_same
wr_stsz_explicit(sample_sizes, count) ==
  << start("stsz", "wr_stsz.s"), u8(0), u8(0), u8(0), u8(0), u32(0), u32(count) >>
  \o [i \in 1..count |-> u32(sample_sizes[i])]
  \o << fin("wr_stsz.s") >>

wr_stsz(sample_sizes, count) ==
  << start("stsz", "wr_stsz.s"), u8(0), u8(0), u8(0), u8(0) >>
  \o (IF stsz_all_same(sample_sizes, count)
        THEN << u32(sample_sizes[1]), u32(count) >>
        ELSE << u32(0), u32(count) >> \o [i \in 1..count |-> u32(sample_sizes[i])])
  \o << fin("wr_stsz.s") >>

wr_stco(offset) ==
  << start("stco", "wr_stco.s"),
     u8(0), u8(0), u8(0), u8(0), u32(1), u32l(offset), fin("wr_stco.s") >>

wr_stbl(w, h, sample_sizes, deltas, count, offset) ==
  << start("stbl", "wr_stbl.s") >>
  \o wr_stsd(w, h)
  \o wr_stts(deltas, count)
  \o wr_stsc(count)
  \o wr_stsz(sample_sizes, count)
  \o wr_stco(offset)
  \o << fin("wr_stbl.s") >>

\* uint32_t total_duration += frame_delays[i]
RECURSIVE total_duration(_, _)
total_duration(frame_delays, n) ==
  IF n = 0 THEN to_u32(0)
  ELSE u32_add(total_duration(frame_delays, n - 1), to_u32(frame_delays[n]))

\* uint32_t mdat_offset = b->size + moov_buf.size + 8, from the main buffer b and
\* the moov scratch buffer as they are when the statement runs
mdat_offset(b, moov_buf) == to_u32(b.size + moov_buf.size + 8)

\* create_mp4, up to the statement that computes mdat_offset: the calls on moov_buf
create_mp4_head(dur, w, h) ==
  << start("moov", "moov_s") >>
  \o wr_mvhd(1000, dur)
  \o << start("trak", "trak_s") >>
  \o wr_tkhd(dur, w, h)
  \o << start("mdia", "mdia_s") >>
  \o wr_mdhd(1000, dur)
  \o wr_hdlr
  \o << start("minf", "minf_s") >>
  \o wr_vmhd
  \o << start("dinf", "dinf_s") >>
  \o wr_dref
  \o << fin("dinf_s") >>

create_mp4(b, frames, frame_sizes, frame_delays, frame_count, w, h) ==
  LET dur == total_duration(frame_delays, frame_count)
      b1 == wr_all(Writer(b), wr_ftyp)
      m1 == wr_all(Writer(buf_init(4096)), create_mp4_head(dur, w, h))
      off == mdat_offset(b1.buf, m1.buf)
      m2 == wr_all(m1, wr_stbl(w, h, frame_sizes, frame_delays, frame_count, off)
                       \o << fin("minf_s"), fin("mdia_s"), fin("trak_s"), fin("moov_s") >>)
      moov_buf == m2.buf
      b2 == LET e == buf_ensure(b1.buf, moov_buf.size)
            IN  [e EXCEPT !.data = @ \o moov_buf.data, !.size = @ + moov_buf.size]
  IN  wr_all(Writer(b2), wr_mdat(frames, frame_sizes, frame_count)).buf

\* ===================================================== compressed muxer ==
\* Buffer: data holds the size bytes written so far.
buffer_init(capacity) == [data |-> <<>>, size |-> 0, capacity |-> capacity]

\* realloc succeeds: the buffer takes the new capacity
buffer_ensure(buf, needed) ==
  IF buf.size + needed > buf.capacity
    THEN [buf EXCEPT !.capacity = (buf.size + needed) * 2]
    ELSE buf

buffer_write_bytes(buf, d) ==
  LET e == buffer_ensure(buf, Len(d))
  IN  [e EXCEPT !.data = @ \o d, !.size = @ + Len(d)]

buffer_write_u32(buf, value) ==
  LET e == buffer_ensure(buf, 4)
  IN  [e EXCEPT !.data = @ \o be32(value), !.size = @ + 4]

buffer_write_u16(buf, value) ==
  LET e == buffer_ensure(buf, 2)
  IN  [e EXCEPT !.data = @ \o be16(value % U16), !.size = @ + 2]

buffer_write_u8(buf, value) ==
  LET e == buffer_ensure(buf, 1)
  IN  [e EXCEPT !.data = Append(@, value % U8), !.size = @ + 1]

buffer_write_fourcc(buf, s) == buffer_write_bytes(buf, fourcc(s))

\* box_start / box_end of the compressed muxer
wc_box_start(buf, type) == buffer_write_fourcc(buffer_write_u32(buf, to_u32(0)), type)

wc_box_end(buf, offset) ==
  [buf EXCEPT !.data = SubSeq(@, 1, offset) \o be32(to_u32(buf.size - offset))
                       \o SubSeq(@, offset + 5, Len(@))]

\* one call of a compressed-muxer call sequence
buffer_call(w, op) ==
  CASE op[1] = "u8" -> [w EXCEPT !.buf = buffer_write_u8(@, op[2])]
    [] op[1] = "u16" -> [w EXCEPT !.buf = buffer_write_u16(@, op[2])]
    [] op[1] = "u32" -> [w EXCEPT !.buf = buffer_write_u32(@, op[2])]
    [] op[1] = "bytes" -> [w EXCEPT !.buf = buffer_write_bytes(@, op[2])]
    [] op[1] = "box_start" -> [buf |-> wc_box_start(w.buf, op[2]),
                               locals |-> SetLocal(w.locals, op[3], w.buf.size)]
    [] op[1] = "box_end" -> [w EXCEPT !.buf = wc_box_end(@, w.locals[op[2]])]

\* the calls ops[lo..hi] in program order, the first half to completion, then the second
RECURSIVE buffer_run(_, _, _, _)
buffer_run(w, ops, lo, hi) ==
  IF lo > hi THEN w
  ELSE IF lo = hi THEN buffer_call(w, ops[lo])
  ELSE LET mid == (lo + hi) \div 2
           first == buffer_run(w, ops, lo, mid)
       IN  IF first.buf.size >= w.buf.size THEN buffer_run(first, ops, mid + 1, hi) ELSE first

buffer_write_all(w, ops) == buffer_run(w, ops, 1, Len(ops))

write_ftyp ==
  << start("ftyp", "write_ftyp.start"), bytes(fourcc("isom")), u32(512),
     bytes(fourcc("isom")), bytes(fourcc("iso2")), bytes(fourcc("avc1")),
     bytes(fourcc("mp41")), fin("write_ftyp.start") >>

\* the loop body of write_mdat for frame i: the length prefix, then the data
write_mdat_frame(m, i) ==
  << u32(m.frames[i].size), bytes(SubSeq(m.frames[i].data, 1, m.frames[i].size)) >>

RECURSIVE write_mdat_loop(_, _)
write_mdat_loop(m, i) ==
  IF i > m.frame_count THEN << >>
  ELSE write_mdat_frame(m, i) \o write_mdat_loop(m, i + 1)

write_mdat(m) ==
  << start("mdat", "write_mdat.start") >>
  \o write_mdat_loop(m, 1)
  \o << fin("write_mdat.start") >>

\* the ten words write_trak and write_moov write as the matrix
wc_matrix == <<65536, 0, 0, 0, 0, 65536, 0, 0, 0, 1073741824>>

\* the 7-byte fallback avcC record of write_avc1
avcc_fallback == <<1, 66, 0, 30, 255, 224, 0>>

write_avc1(m) ==
  << start("avc1", "write_avc1.start") >>
  \o rep(6, u8(0))
  \o << u16(1), u16(0), u16(0), u32(0), u32(0), u32(0),
        u16(m.width), u16(m.height), u32(4718592), u32(4718592), u32(0),
        u16(1), u8(0) >>
  \o rep(31, u8(0))
  \o << u16(24), u16(65535), start("avcC", "write_avc1.avcc_start") >>
  \o (IF m.decoder_config # NULL /\ m.decoder_config_size > 0
        THEN << bytes(SubSeq(Deref(m.decoder_config), 1, m.decoder_config_size)) >>
        ELSE [i \in 1..7 |-> u8(avcc_fallback[i])])
  \o << fin("write_avc1.avcc_start"), fin("write_avc1.start") >>

write_stsd(m) ==
  << start("stsd", "write_stsd.start"), u32(0), u32(1) >>
  \o write_avc1(m)
  \o << fin("write_stsd.start") >>

\* uint32_t avg_delta of write_stts
avg_delta(m) ==
  IF m.frame_count > 1
    THEN LET total == u32_sub(m.frames[m.frame_count].timestamp, m.frames[1].timestamp)
         IN  u32_div(u32_div(u32_mul(total, 30), m.frame_count - 1), 1000)
    ELSE to_u32(1000)

write_stts(m) ==
  << start("stts", "write_stts.start"),
     u32(0), u32(1), u32(m.frame_count), u32l(avg_delta(m)), fin("write_stts.start") >>

write_stsc(m) ==
  << start("stsc", "write_stsc.start"),
     u32(0), u32(1), u32(1), u32(m.frame_count), u32(1), fin("write_stsc.start") >>

write_stsz(m) ==
  << start("stsz", "write_stsz.start"), u32(0), u32(0), u32(m.frame_count) >>
  \o [i \in 1..m.frame_count |-> u32(m.frames[i].size + 4)]
  \o << fin("write_stsz.start") >>

\* write_stco with the fault of leaving out the 8 bytes of the mdat header
write_stco_box_start(mdat_off) ==
  << start("stco", "write_stco.start"),
     u32(0), u32(1), u32l(mdat_off), fin("write_stco.start") >>

write_stco(mdat_off) ==
  << start("stco", "write_stco.start"),
     u32(0), u32(1), u32l(u32_add(mdat_off, to_u32(8))), fin("write_stco.start") >>

\* the first loop of write_stss: int keyframe_count
stss_keyframe_count(m) ==
  Cardinality({i \in 0..(m.frame_count - 1) : m.frames[i + 1].is_keyframe # 0})

\* the second loop with the fault of writing the 0-based index i
RECURSIVE write_stss_loop_zero_based(_, _)
write_stss_loop_zero_based(m, i) ==
  IF i >= m.frame_count THEN << >>
  ELSE (IF m.frames[i + 1].is_keyframe # 0 THEN << u32(i) >> ELSE << >>)
       \o write_stss_loop_zero_based(m, i + 1)

\* the second loop of write_stss: one entry i + 1 per keyframe, in index order
RECURSIVE write_stss_loop(_, _)
write_stss_loop(m, i) ==
  IF i >= m.frame_count THEN << >>
  ELSE (IF m.frames[i + 1].is_keyframe # 0 THEN << u32(i + 1) >> ELSE << >>)
       \o write_stss_loop(m, i + 1)

write_stss(m) ==
  IF stss_keyframe_count(m) = 0 THEN << >>
  ELSE << start("stss", "write_stss.start"), u32(0), u32(stss_keyframe_count(m)) >>
       \o write_stss_loop(m, 0)
       \o << fin("write_stss.start") >>

write_stbl(m, mdat_off) ==
  << start("stbl", "write_stbl.start") >>
  \o write_stsd(m)
  \o write_stts(m)
  \o write_stsc(m)
  \o write_stsz(m)
  \o write_stco(mdat_off)
  \o write_stss(m)
  \o << fin("write_stbl.start") >>

write_minf(m, mdat_off) ==
  << start("minf", "write_minf.start"),
     start("vmhd", "write_minf.vmhd_start"),
     u32(1), u16(0), u16(0), u16(0), u16(0),
     fin("write_minf.vmhd_start"),
     start("dinf", "write_minf.dinf_start"),
     start("dref", "write_minf.dref_start"),
     u32(0), u32(1),
     start("url ", "write_minf.url_start"),
     u32(1),
     fin("write_minf.url_start"),
     fin("write_minf.dref_start"),
     fin("write_minf.dinf_start") >>
  \o write_stbl(m, mdat_off)
  \o << fin("write_minf.start") >>

\* the duration written by write_mdia into mdhd (timescale 30000)
mdhd_duration(m) ==
  IF m.frame_count > 0
    THEN u32_div(u32_mul(m.frames[m.frame_count].timestamp, 30), 1000)
    ELSE to_u32(30000)

\* the duration written by write_trak into tkhd and by write_moov into mvhd
\* (timescale 1000)
movie_duration(m) ==
  IF m.frame_count > 0 THEN u32_div(m.frames[m.frame_count].timestamp, 1000)
  ELSE to_u32(1000)

write_mdia(m, mdat_off) ==
  << start("mdia", "write_mdia.start"),
     start("mdhd", "write_mdia.mdhd_start"),
     u32(0), u32(0), u32(0), u32(30000), u32l(mdhd_duration(m)), u16(21956), u16(0),
     fin("write_mdia.mdhd_start"),
     start("hdlr", "write_mdia.hdlr_start"),
     u32(0), u32(0), bytes(fourcc("vide")), u32(0), u32(0), u32(0), u8(0),
     fin("write_mdia.hdlr_start") >>
  \o write_minf(m, mdat_off)
  \o << fin("write_mdia.start") >>

write_trak(m, mdat_off) ==
  << start("trak", "write_trak.start"),
     start("tkhd", "write_trak.tkhd_start"),
     u32(7), u32(0), u32(0), u32(1), u32(0), u32l(movie_duration(m)),
     u32(0), u32(0), u16(0), u16(0), u16(0), u16(0) >>
  \o [i \in 1..10 |-> u32(wc_matrix[i])]
  \o << u32l(u32_shl16(to_u32(m.width))), u32l(u32_shl16(to_u32(m.height))),
        fin("write_trak.tkhd_start") >>
  \o write_mdia(m, mdat_off)
  \o << fin("write_trak.start") >>

write_moov(m, mdat_off) ==
  << start("moov", "write_moov.start"),
     start("mvhd", "write_moov.mvhd_start"),
     u32(0), u32(0), u32(0), u32(1000), u32l(movie_duration(m)),
     u32(65536), u16(256), u16(0), u32(0), u32(0) >>
  \o [i \in 1..10 |-> u32(wc_matrix[i])]
  \o rep(6, u32(0))
  \o << u32(2), fin("write_moov.mvhd_start") >>
  \o write_trak(m, mdat_off)
  \o << fin("write_moov.start") >>

\* the body of finalize_webcodecs_mp4 after its guard: the new muxer->output
build_webcodecs_mp4(m) ==
  LET b1 == buffer_write_all(Writer(m.output), write_ftyp)
      mdat_off == to_u32(b1.buf.size)
  IN  buffer_write_all(Writer(b1.buf), write_mdat(m) \o write_moov(m, mdat_off)).buf

\* ================================================================ state ==
VARIABLES
  wasm,             \* which of the two WASM modules is instantiated
  mp4_output,       \* raw muxer: static Mp4Buf* mp4_output
  frames,           \* raw muxer: static FrameData* frames
  frame_count,      \* raw muxer: static int frame_count
  frame_capacity,   \* raw muxer: static int frame_capacity
  video_width,      \* raw muxer: static uint32_t video_width
  video_height,     \* raw muxer: static uint32_t video_height
  video_fps,        \* raw muxer: static uint32_t video_fps
  muxer,            \* compressed muxer: static Muxer* muxer
  wc_finalized,     \* compressed muxer: finalize calls that wrote, since the last init
  last_config,      \* compressed muxer: the record of the last set_decoder_config that
                    \* returned 1 since the last init, NULL if there was none
  ret,              \* the last exported call and what it returned
  released,         \* heap blocks of the session the last exported call passed to free()
  conv,             \* SpecConvert: the arguments of the conversion calls, the number
                    \* of the run in progress, and what the finished runs returned
  arr,              \* SpecTables: the array handed to a table writer
  tbl               \* SpecTables: the table box the writer produced

vars == << wasm, mp4_output, frames, frame_count, frame_capacity, video_width,
           video_height, video_fps, muxer, wc_finalized, last_config, ret, released,
           conv, arr, tbl >>

raw_vars == << mp4_output, frames, frame_count, frame_capacity, video_width,
               video_height, video_fps >>
wc_vars == << muxer, wc_finalized, last_config >>
tbl_vars == << arr, tbl >>

\* no conversion call is in progress: the exported functions are called directly
NoConversion ==
  [entry |-> "none", fw |-> 0, fh |-> 0, delays |-> << >>, width |-> 0, height |-> 0,
   fps |-> << >>, run |-> 0, results |-> << >>, returned |-> << >>, cleanups |-> 0]

\* what an exported call returned: val is the int result (or *out_size),
\* ptr tells whether a returned pointer is NULL ("null"), the output data ("data"),
\* or that the call returns no pointer ("none")
Ret(fn, val, ptr) == [fn |-> fn, val |-> val, ptr |-> ptr]

\* the RGBA pixels a caller hands to add_frame: width * height * 4 bytes
Rgba(seed, width, height) == [k \in 1..(width * height * 4) |-> (seed + k - 1) % U8]

Init ==
  /\ wasm \in {"gif2video", "webcodecs_muxer"}
  /\ mp4_output = NULL
  /\ frames = NULL
  /\ frame_count = 0
  /\ frame_capacity = 0
  /\ video_width = 0
  /\ video_height = 0
  /\ video_fps = 10
  /\ muxer = NULL
  /\ wc_finalized = 0
  /\ last_config = NULL
  /\ ret = Ret("none", 0, "none")
  /\ released = 0
  /\ conv = NoConversion
  /\ arr = <<>>
  /\ tbl = buf_init(0)

\* ---------------------------------------------------- raw muxer exports --
init_encoder(width, height, fps) ==
  /\ wasm = "gif2video"
  /\ mp4_output' = NULL
  /\ frames' = Ptr(<<>>)
  /\ video_width' = width
  /\ video_height' = height
  /\ video_fps' = fps
  /\ frame_count' = 0
  /\ frame_capacity' = 10
  /\ ret' = Ret("init_encoder", 1, "none")
  /\ UNCHANGED << wc_vars, tbl_vars, wasm >>
  /\ released' = (IF mp4_output # NULL THEN 2 ELSE 0)
                  + (IF frames # NULL THEN frame_count + 1 ELSE 0)
  /\ UNCHANGED conv

\* init_encoder when malloc(sizeof(FrameData) * frame_capacity) returns NULL
init_encoder_malloc_fails(width, height, fps) ==
  /\ wasm = "gif2video"
  /\ mp4_output' = NULL
  /\ frames' = NULL
  /\ video_width' = width
  /\ video_height' = height
  /\ video_fps' = fps
  /\ frame_count' = 0
  /\ frame_capacity' = 10
  /\ ret' = Ret("init_encoder", 0, "none")
  /\ UNCHANGED << wc_vars, tbl_vars, wasm >>
  /\ released' = (IF mp4_output # NULL THEN 2 ELSE 0)
                  + (IF frames # NULL THEN frame_count + 1 ELSE 0)
  /\ UNCHANGED conv

\* add_frame with the fault of not comparing height with video_height
add_frame_ignores_height(rgba_seed, width, height, delay_ms) ==
  /\ wasm = "gif2video"
  /\ IF frames = NULL \/ width # video_width
       THEN /\ ret' = Ret("add_frame", 0, "none")
            /\ UNCHANGED raw_vars
       ELSE /\ frame_count < MaxRawFrames
            /\ LET rgb == rgba_to_rgb24(Rgba(rgba_seed, width, height), width, height)
               IN  frames' = Ptr(Append(Deref(frames),
                                        [rgb_data |-> rgb.data, size |-> rgb.size,
                                         delay_ms |-> IF delay_ms > 0 THEN delay_ms ELSE 100]))
            /\ frame_capacity' = IF frame_count >= frame_capacity
                                   THEN frame_capacity * 2 ELSE frame_capacity
            /\ frame_count' = frame_count + 1
            /\ ret' = Ret("add_frame", 1, "none")
            /\ UNCHANGED << mp4_output, video_width, video_height, video_fps >>
  /\ UNCHANGED << wc_vars, tbl_vars, wasm >>
  /\ released' = 0
  /\ UNCHANGED conv

add_frame(rgba_seed, width, height, delay_ms) ==
  /\ wasm = "gif2video"
  /\ IF frames = NULL \/ width # video_width \/ height # video_height
       THEN /\ ret' = Ret("add_frame", 0, "none")
            /\ UNCHANGED raw_vars
       ELSE /\ frame_count < MaxRawFrames
            /\ LET rgb == rgba_to_rgb24(Rgba(rgba_seed, width, height), width, height)
               IN  frames' = Ptr(Append(Deref(frames),
                                        [rgb_data |-> rgb.data, size |-> rgb.size,
                                         delay_ms |-> IF delay_ms > 0 THEN delay_ms ELSE 100]))
            /\ frame_capacity' = IF frame_count >= frame_capacity
                                   THEN frame_capacity * 2 ELSE frame_capacity
            /\ frame_count' = frame_count + 1
            /\ ret' = Ret("add_frame", 1, "none")
            /\ UNCHANGED << mp4_output, video_width, video_height, video_fps >>
  /\ UNCHANGED << wc_vars, tbl_vars, wasm >>
  /\ released' = 0
  /\ UNCHANGED conv

\* size_t total_size += frame_sizes[i]
RECURSIVE sum_sizes(_, _)
sum_sizes(frame_sizes, n) ==
  IF n = 0 THEN 0 ELSE sum_sizes(frame_sizes, n - 1) + frame_sizes[n]

\* get_video_buffer's effect on mp4_output: built once, from the frames held then
built_output ==
  IF mp4_output = NULL /\ frames # NULL /\ frame_count > 0
    THEN LET fr == Deref(frames)
             frame_ptrs == [i \in 1..frame_count |-> fr[i].rgb_data]
             frame_sizes == [i \in 1..frame_count |-> fr[i].size]
             frame_delays == [i \in 1..frame_count |-> fr[i].delay_ms]
             total_size == sum_sizes(frame_sizes, frame_count)
         IN  Ptr(create_mp4(buf_init(total_size + 8192), frame_ptrs, frame_sizes,
                            frame_delays, frame_count, video_width, video_height))
    ELSE mp4_output

get_video_buffer ==
  /\ wasm = "gif2video"
  /\ mp4_output' = built_output
  /\ ret' = Ret("get_video_buffer", 0, IF mp4_output' # NULL THEN "data" ELSE "null")
  /\ UNCHANGED << frames, frame_count, frame_capacity, video_width, video_height, video_fps >>
  /\ UNCHANGED << wc_vars, tbl_vars, wasm >>
  /\ released' = 0
  /\ UNCHANGED conv

get_video_size ==
  /\ wasm = "gif2video"
  /\ mp4_output' = built_output
  /\ ret' = Ret("get_video_size", IF mp4_output' # NULL THEN Deref(mp4_output').size ELSE 0,
                "none")
  /\ UNCHANGED << frames, frame_count, frame_capacity, video_width, video_height, video_fps >>
  /\ UNCHANGED << wc_vars, tbl_vars, wasm >>
  /\ released' = 0
  /\ UNCHANGED conv

finalize_video ==
  /\ wasm = "gif2video"
  /\ mp4_output' = built_output
  /\ ret' = Ret("finalize_video", IF mp4_output' # NULL THEN Deref(mp4_output').size ELSE 0,
                IF mp4_output' # NULL THEN "data" ELSE "null")
  /\ UNCHANGED << frames, frame_count, frame_capacity, video_width, video_height, video_fps >>
  /\ UNCHANGED << wc_vars, tbl_vars, wasm >>
  /\ released' = 0
  /\ UNCHANGED conv

\* what cleanup does to the muxer
cleanup_effect ==
  /\ wasm = "gif2video"
  /\ mp4_output' = NULL
  /\ frames' = NULL
  /\ frame_count' = 0
  /\ ret' = Ret("cleanup", 0, "none")
  /\ UNCHANGED << frame_capacity, video_width, video_height, video_fps >>
  /\ UNCHANGED << wc_vars, tbl_vars, wasm >>
  /\ released' = (IF mp4_output # NULL THEN 2 ELSE 0)
                  + (IF frames # NULL THEN frame_count + 1 ELSE 0)

cleanup ==
  /\ cleanup_effect
  /\ UNCHANGED conv

\* --------------------------------------------- compressed muxer exports --
MAX_FRAMES == 10000

\* what init_webcodecs_muxer does to the muxer
init_webcodecs_muxer_effect(width, height) ==
  /\ wasm = "webcodecs_muxer"
  /\ muxer' = Ptr([frames |-> <<>>, frame_count |-> 0, width |-> width, height |-> height,
                   output |-> buffer_init(1048576),
                   decoder_config |-> NULL, decoder_config_size |-> 0])
  /\ wc_finalized' = 0
  /\ ret' = Ret("init_webcodecs_muxer", 1, "none")
  /\ UNCHANGED << raw_vars, tbl_vars, wasm >>
  /\ released' = IF muxer # NULL THEN 1 ELSE 0
  /\ last_config' = NULL

init_webcodecs_muxer(width, height) ==
  /\ init_webcodecs_muxer_effect(width, height)
  /\ UNCHANGED conv

set_decoder_config(config_data) ==
  /\ wasm = "webcodecs_muxer"
  /\ IF muxer = NULL
       THEN /\ ret' = Ret("set_decoder_config", 0, "none")
            /\ UNCHANGED muxer
       ELSE /\ muxer' = Ptr([Deref(muxer) EXCEPT !.decoder_config = Ptr(config_data),
                                                !.decoder_config_size = Len(config_data)])
            /\ ret' = Ret("set_decoder_config", 1, "none")
  /\ UNCHANGED << raw_vars, tbl_vars, wasm, wc_finalized >>
  /\ released' = IF muxer # NULL /\ Deref(muxer).decoder_config # NULL THEN 1 ELSE 0
  /\ last_config' = IF muxer = NULL THEN last_config ELSE Ptr(config_data)
  /\ UNCHANGED conv

\* what add_h264_frame does to the muxer
add_h264_frame_effect(data, timestamp, is_keyframe) ==
  /\ wasm = "webcodecs_muxer"
  /\ IF muxer = NULL \/ Deref(muxer).frame_count >= MAX_FRAMES
       THEN /\ ret' = Ret("add_h264_frame", 0, "none")
            /\ UNCHANGED muxer
       ELSE /\ Deref(muxer).frame_count < MaxWcFrames
            /\ muxer' = Ptr([Deref(muxer) EXCEPT
                               !.frames = Append(@, [data |-> data, size |-> Len(data),
                                                     timestamp |-> to_u32(timestamp),
                                                     is_keyframe |-> is_keyframe]),
                               !.frame_count = @ + 1])
            /\ ret' = Ret("add_h264_frame", 1, "none")
  /\ UNCHANGED << raw_vars, tbl_vars, wasm, wc_finalized >>
  /\ released' = 0
  /\ UNCHANGED last_config

add_h264_frame(data, timestamp, is_keyframe) ==
  /\ add_h264_frame_effect(data, timestamp, is_keyframe)
  /\ UNCHANGED conv

\* what finalize_webcodecs_mp4 does to the muxer
finalize_webcodecs_mp4_effect ==
  /\ wasm = "webcodecs_muxer"
  /\ IF muxer = NULL \/ Deref(muxer).frame_count = 0
       THEN /\ ret' = Ret("finalize_webcodecs_mp4", 0, "null")
            /\ UNCHANGED << muxer, wc_finalized >>
       ELSE /\ wc_finalized < MaxWcFinalize
            /\ muxer' = Ptr([Deref(muxer) EXCEPT !.output = build_webcodecs_mp4(Deref(muxer))])
            /\ wc_finalized' = wc_finalized + 1
            /\ ret' = Ret("finalize_webcodecs_mp4", Deref(muxer').output.size, "data")
  /\ UNCHANGED << raw_vars, tbl_vars, wasm >>
  /\ released' = 0
  /\ UNCHANGED last_config

\* finalize_webcodecs_mp4 with the fault of not testing frame_count == 0
finalize_webcodecs_mp4_unguarded ==
  /\ wasm = "webcodecs_muxer"
  /\ IF muxer = NULL
       THEN /\ ret' = Ret("finalize_webcodecs_mp4", 0, "null")
            /\ UNCHANGED << muxer, wc_finalized >>
       ELSE /\ wc_finalized < MaxWcFinalize
            /\ muxer' = Ptr([Deref(muxer) EXCEPT !.output = build_webcodecs_mp4(Deref(muxer))])
            /\ wc_finalized' = wc_finalized + 1
            /\ ret' = Ret("finalize_webcodecs_mp4", Deref(muxer').output.size, "data")
  /\ UNCHANGED << raw_vars, tbl_vars, wasm >>
  /\ released' = 0
  /\ UNCHANGED last_config
  /\ UNCHANGED conv

finalize_webcodecs_mp4 ==
  /\ finalize_webcodecs_mp4_effect
  /\ UNCHANGED conv

\* what cleanup_webcodecs_muxer does to the muxer
cleanup_webcodecs_muxer_effect ==
  /\ wasm = "webcodecs_muxer"
  /\ muxer' = NULL
  /\ wc_finalized' = 0
  /\ ret' = Ret("cleanup_webcodecs_muxer", 0, "none")
  /\ UNCHANGED << raw_vars, tbl_vars, wasm >>
  /\ released' = IF muxer = NULL THEN 0
                  ELSE Deref(muxer).frame_count                \* each frames[i].data
                       + 1                                     \* output.data
                       + (IF Deref(muxer).decoder_config # NULL THEN 1 ELSE 0)
                       + 1                                     \* muxer
  /\ last_config' = NULL

\* cleanup_webcodecs_muxer with the fault of not freeing muxer->decoder_config
cleanup_webcodecs_muxer_keeps_config ==
  /\ wasm = "webcodecs_muxer"
  /\ muxer' = NULL
  /\ wc_finalized' = 0
  /\ ret' = Ret("cleanup_webcodecs_muxer", 0, "none")
  /\ UNCHANGED << raw_vars, tbl_vars, wasm >>
  /\ released' = IF muxer = NULL THEN 0 ELSE Deref(muxer).frame_count + 1 + 1
  /\ last_config' = NULL
  /\ UNCHANGED conv

cleanup_webcodecs_muxer ==
  /\ cleanup_webcodecs_muxer_effect
  /\ UNCHANGED conv

\* ------------------------------------------------------- specification --
RawNext ==
  \/ \E w \in Widths, h \in Heights, fps \in FpsValues : init_encoder(w, h, fps)
  \/ \E seed \in PixelSeeds, w \in Widths, h \in Heights, d \in Delays : add_frame(seed, w, h, d)
  \/ get_video_buffer
  \/ get_video_size
  \/ finalize_video
  \/ cleanup

WcNext ==
  \/ \E w \in WcWidths, h \in WcHeights : init_webcodecs_muxer(w, h)
  \/ \E c \in Configs : set_decoder_config(c)
  \/ \E c \in Chunks : add_h264_frame(c.data, c.timestamp, c.is_keyframe)
  \/ finalize_webcodecs_mp4
  \/ cleanup_webcodecs_muxer

Next == RawNext \/ WcNext

Spec == Init /\ [][Next]_vars

\* ------------------------------------------------- allocation failure --
\* SpecAlloc adds, to the calls of Spec, the calls in which the first heap
\* allocation the call attempts returns NULL.

\* set_decoder_config when malloc(config_size) fails: the previous record is
\* freed already, decoder_config is NULL, decoder_config_size keeps its value
set_decoder_config_malloc_fails(config_data) ==
  /\ wasm = "webcodecs_muxer"
  /\ muxer # NULL
  /\ muxer' = Ptr([Deref(muxer) EXCEPT !.decoder_config = NULL])
  /\ released' = IF Deref(muxer).decoder_config # NULL THEN 1 ELSE 0
  /\ ret' = Ret("set_decoder_config", 0, "none")
  /\ UNCHANGED << raw_vars, tbl_vars, wasm, wc_finalized >>
  /\ UNCHANGED last_config
  /\ UNCHANGED conv

\* add_h264_frame when malloc(size) fails: frame_count is not advanced
add_h264_frame_malloc_fails(data, timestamp, is_keyframe) ==
  /\ wasm = "webcodecs_muxer"
  /\ muxer # NULL
  /\ Deref(muxer).frame_count < MAX_FRAMES
  /\ ret' = Ret("add_h264_frame", 0, "none")
  /\ released' = 0
  /\ UNCHANGED << raw_vars, wc_vars, tbl_vars, wasm >>
  /\ UNCHANGED conv

\* add_frame when its first allocation fails.  A failed realloc of the frames
\* array leaves frames NULL with frame_capacity doubled.  A failed malloc in
\* rgba_to_rgb24 is followed by the copy loop storing through the NULL pointer
\* before add_frame tests it: the stores either land in low memory (the call
\* then returns 0) or trap (no further call is served).
add_frame_alloc_fails(rgba_seed, width, height, delay_ms) ==
  /\ wasm = "gif2video"
  /\ frames # NULL /\ width = video_width /\ height = video_height
  /\ released' = 0
  /\ IF frame_count >= frame_capacity
       THEN /\ frame_capacity' = frame_capacity * 2
            /\ frames' = NULL
            /\ ret' = Ret("add_frame", 0, "none")
            /\ UNCHANGED << mp4_output, frame_count, video_width, video_height, video_fps, wasm >>
       ELSE /\ \/ /\ ret' = Ret("add_frame", 0, "none")
                  /\ UNCHANGED wasm
               \/ /\ ret' = Ret("add_frame", 0, "trap")
                  /\ wasm' = "trapped"
            /\ UNCHANGED raw_vars
  /\ UNCHANGED << wc_vars, tbl_vars >>
  /\ UNCHANGED conv

NextAlloc ==
  \/ Next
  \/ \E c \in Configs : set_decoder_config_malloc_fails(c)
  \/ \E c \in Chunks : add_h264_frame_malloc_fails(c.data, c.timestamp, c.is_keyframe)
  \/ \E seed \in PixelSeeds, w \in Widths, h \in Heights, d \in Delays :
        add_frame_alloc_fails(seed, w, h, d)

SpecAlloc == Init /\ [][NextAlloc]_vars

\* ---------------------------------------------------- conversion calls --
\* SpecConvert runs convertFrames or convertGifBuffer (index.ts) twice on the
\* same frames, the two calls differing in options.fps only.  Each call is
\* encodeFramesToMp4 on a fresh instance of the raw muxer module: init_encoder,
\* add_frame per frame, get_video_size, get_video_buffer, a copy of the bytes
\* out of the module's memory, and cleanup in the finally block.
MaxConvFrames == 2

\* frame.delayMs of a FrameInput; the delay decodeGif computes from the
\* centiseconds of a GIF frame, (frameInfo.delay || 10) * 10
GifCentiseconds == {0, 2}
GifDelay(cs) == (IF cs # 0 THEN cs ELSE 10) * 10
ConvDelays(entry) ==
  IF entry = "convertFrames" THEN Delays ELSE {GifDelay(cs) : cs \in GifCentiseconds}

\* options.width / options.height: 0 stands for an option that is not given
OptionWidths == {0, 2}
OptionHeights == {0, 2}
\* options.fps of the first and of the second call
FpsPairs == {<<10, 30>>, <<24, 10>>}

ConvCalls ==
  { [entry |-> e, fw |-> fw, fh |-> fh, delays |-> ds, width |-> ow, height |-> oh,
     fps |-> fp, run |-> 0, results |-> << >>, returned |-> << >>, cleanups |-> 0] :
      e \in {"convertFrames", "convertGifBuffer"}, fw \in Widths, fh \in Heights,
      ds \in UNION {[1..n -> Delays \cup {GifDelay(cs) : cs \in GifCentiseconds}] :
                     n \in 0..MaxConvFrames},
      ow \in OptionWidths, oh \in OptionHeights, fp \in FpsPairs }

\* the width and height the entry point hands to encodeFramesToMp4:
\* convertFrames takes options.width || firstFrame.data.width, convertGifBuffer
\* the width decodeGif returned
ConvWidth == IF conv.entry = "convertFrames" /\ conv.width # 0 THEN conv.width ELSE conv.fw
ConvHeight == IF conv.entry = "convertFrames" /\ conv.height # 0 THEN conv.height ELSE conv.fh

InitConvert ==
  /\ wasm = "gif2video"
  /\ mp4_output = NULL
  /\ frames = NULL
  /\ frame_count = 0
  /\ frame_capacity = 0
  /\ video_width = 0
  /\ video_height = 0
  /\ video_fps = 10
  /\ muxer = NULL
  /\ wc_finalized = 0
  /\ last_config = NULL
  /\ ret = Ret("none", 0, "none")
  /\ released = 0
  /\ conv \in {c \in ConvCalls : \A k \in 1..Len(c.delays) : c.delays[k] \in ConvDelays(c.entry)}
  /\ arr = <<>>
  /\ tbl = buf_init(0)

\* a run is in progress: created, and its outcome not yet recorded
ConvRunning == conv.run = Len(conv.results) + 1

\* what optimizeMP4Buffer resolves with when the optimizer succeeds: bytes of
\* ffmpeg or of the H.264 encoder, here one file that is not the muxer's
OptimizedOutputs == { << 0, 0, 0, 8, 102, 116, 121, 112 >> }

\* a call is ready to start: the calls before it have settled
ConvIdle == conv.run = Len(conv.returned) /\ conv.run < Len(conv.fps)

\* convertFrames: if (!frames || frames.length === 0) throw 'No frames provided'
convertFrames_no_frames ==
  /\ wasm = "gif2video"
  /\ ConvIdle
  /\ conv.entry = "convertFrames" /\ conv.delays = << >>
  /\ conv' = [conv EXCEPT !.run = @ + 1, !.cleanups = 0,
                            !.results = Append(@, [ok |-> FALSE, data |-> << >>, copied |-> FALSE]),
                            !.returned = Append(@, [ok |-> FALSE, optimized |-> FALSE,
                                                    data |-> << >>])]
  /\ UNCHANGED << raw_vars, wc_vars, tbl_vars, wasm, ret, released >>

\* const Module = await createModule(): a fresh instance, statics as initialised
encodeFramesToMp4_createModule ==
  /\ wasm = "gif2video"
  /\ ConvIdle
  /\ ~(conv.entry = "convertFrames" /\ conv.delays = << >>)
  /\ ret.fn \in {"none", "cleanup"}
  /\ conv' = [conv EXCEPT !.run = @ + 1, !.cleanups = 0]
  /\ mp4_output' = NULL
  /\ frames' = NULL
  /\ frame_count' = 0
  /\ frame_capacity' = 0
  /\ video_width' = 0
  /\ video_height' = 0
  /\ video_fps' = 10
  /\ ret' = Ret("createModule", 0, "none")
  /\ released' = 0
  /\ UNCHANGED << wc_vars, tbl_vars, wasm >>

\* const result = initEncoder(width, height, fps)
encodeFramesToMp4_initEncoder ==
  /\ ConvRunning
  /\ ret.fn = "createModule"
  /\ init_encoder(ConvWidth, ConvHeight, conv.fps[conv.run])

\* the same call when init_encoder cannot allocate and returns 0
encodeFramesToMp4_initEncoder_fails ==
  /\ ConvRunning
  /\ ret.fn = "createModule"
  /\ init_encoder_malloc_fails(ConvWidth, ConvHeight, conv.fps[conv.run])

\* the loop body: addFrame(dataPtr, frame.width, frame.height, frame.delay)
encodeFramesToMp4_addFrame ==
  /\ ConvRunning
  /\ ret.fn \in {"init_encoder", "add_frame"} /\ ret.val = 1
  /\ frame_count < Len(conv.delays)
  /\ \E seed \in PixelSeeds : add_frame(seed, conv.fw, conv.fh, conv.delays[frame_count + 1])

\* if (!result) throw new Error('Failed to initialize video encoder');
\* if (!addResult) throw new Error(`Failed to add frame ${i}`)
encodeFramesToMp4_throw ==
  /\ ConvRunning
  /\ ret.fn \in {"init_encoder", "add_frame"} /\ ret.val = 0
  /\ conv' = [conv EXCEPT !.results = Append(@, [ok |-> FALSE, data |-> << >>, copied |-> FALSE])]
  /\ UNCHANGED << raw_vars, wc_vars, tbl_vars, wasm, ret, released >>

\* const videoSize = getVideoSize()
encodeFramesToMp4_getVideoSize ==
  /\ ConvRunning
  /\ ret.fn \in {"init_encoder", "add_frame"} /\ ret.val = 1
  /\ frame_count = Len(conv.delays)
  /\ get_video_size

\* const videoBufferPtr = getVideoBuffer()
encodeFramesToMp4_getVideoBuffer ==
  /\ ConvRunning
  /\ ret.fn = "get_video_size"
  /\ get_video_buffer

\* encodeFramesToMp4 with the fault of returning videoData, the view on
\* HEAPU8.buffer, itself
encodeFramesToMp4_returns_view ==
  /\ ConvRunning
  /\ ret.fn = "get_video_buffer"
  /\ conv' = [conv EXCEPT !.results =
                 Append(@, [ok |-> TRUE,
                            data |-> IF ret.ptr = "data"
                                       THEN SubSeq(Deref(mp4_output).data, 1,
                                                   Deref(mp4_output).size)
                                       ELSE << >>,
                            copied |-> FALSE])]
  /\ UNCHANGED << raw_vars, wc_vars, tbl_vars, wasm, ret, released >>

\* return Buffer.from(new Uint8Array(HEAPU8.buffer, videoBufferPtr, videoSize));
\* a NULL pointer with size 0 gives a view of no bytes
\* copied tells that the bytes returned are in memory of their own
encodeFramesToMp4_copy ==
  /\ ConvRunning
  /\ ret.fn = "get_video_buffer"
  /\ conv' = [conv EXCEPT !.results =
                 Append(@, [ok |-> TRUE,
                            data |-> IF ret.ptr = "data"
                                       THEN SubSeq(Deref(mp4_output).data, 1,
                                                   Deref(mp4_output).size)
                                       ELSE << >>,
                            copied |-> TRUE])]
  /\ UNCHANGED << raw_vars, wc_vars, tbl_vars, wasm, ret, released >>

\* finally { cleanup(); }
encodeFramesToMp4_cleanup ==
  /\ conv.run >= 1
  /\ conv.run = Len(conv.results)
  /\ ret.fn \in {"init_encoder", "add_frame", "get_video_buffer"}
  /\ cleanup_effect
  /\ conv' = [conv EXCEPT !.cleanups = @ + 1]

\* encodeFramesToMp4 has settled and the call has not
ConvEncoded ==
  /\ conv.run >= 1
  /\ conv.run = Len(conv.results)
  /\ Len(conv.returned) = conv.run - 1
  /\ ret.fn = "cleanup"

\* await encodeFramesToMp4(...) rejected: the call rejects
convert_rejects ==
  /\ ConvEncoded
  /\ ~conv.results[conv.run].ok
  /\ conv' = [conv EXCEPT !.returned = Append(@, [ok |-> FALSE, optimized |-> FALSE,
                                                    data |-> << >>])]
  /\ UNCHANGED << raw_vars, wc_vars, tbl_vars, wasm, ret, released >>

\* try { mp4Buffer = await optimizeMP4Buffer(mp4Buffer, internalFrames) }
convert_optimizeMP4Buffer_resolves ==
  /\ ConvEncoded
  /\ conv.results[conv.run].ok
  /\ \E o \in OptimizedOutputs :
       conv' = [conv EXCEPT !.returned = Append(@, [ok |-> TRUE, optimized |-> TRUE,
                                                     data |-> o])]
  /\ UNCHANGED << raw_vars, wc_vars, tbl_vars, wasm, ret, released >>

\* the catch clause with the fault of rethrowing the optimizer's error
convert_optimizeMP4Buffer_rethrows ==
  /\ ConvEncoded
  /\ conv.results[conv.run].ok
  /\ conv' = [conv EXCEPT !.returned = Append(@, [ok |-> FALSE, optimized |-> FALSE,
                                                    data |-> << >>])]
  /\ UNCHANGED << raw_vars, wc_vars, tbl_vars, wasm, ret, released >>

\* catch (error) { console.warn(...) }: mp4Buffer keeps the muxer's bytes
convert_optimizeMP4Buffer_throws ==
  /\ ConvEncoded
  /\ conv.results[conv.run].ok
  /\ conv' = [conv EXCEPT !.returned = Append(@, [ok |-> TRUE, optimized |-> FALSE,
                                                    data |-> conv.results[conv.run].data])]
  /\ UNCHANGED << raw_vars, wc_vars, tbl_vars, wasm, ret, released >>

NextConvert ==
  \/ convertFrames_no_frames
  \/ encodeFramesToMp4_createModule
  \/ encodeFramesToMp4_initEncoder
  \/ encodeFramesToMp4_initEncoder_fails
  \/ encodeFramesToMp4_addFrame
  \/ encodeFramesToMp4_throw
  \/ encodeFramesToMp4_getVideoSize
  \/ encodeFramesToMp4_getVideoBuffer
  \/ encodeFramesToMp4_copy
  \/ encodeFramesToMp4_cleanup
  \/ convert_rejects
  \/ convert_optimizeMP4Buffer_resolves
  \/ convert_optimizeMP4Buffer_throws

SpecConvert == InitConvert /\ [][NextConvert]_vars

\* ------------------------------------------------ single-frame raw muxer --
\* The single-frame variant of the raw muxer keeps one RGBA frame in
\* frame_data (held in the variable frames here) and frame_width, frame_height,
\* frame_fps (video_width, video_height, video_fps).  A pointer whose block has
\* been freed and that was not reset is Freed(o): it is not NULL.
Freed(o) == << o, "freed" >>
IsFreed(p) == Len(p) = 2

SinglePixelSeeds == {16, 32}
\* what malloc'ed memory may hold before the first memcpy into it
UninitSeeds == {0, 204}

\* create_mp4 of the single-frame variant: ftyp, mdat, then moov with one
\* sample of delta 1000 / fps at offset b->size + 8 taken after ftyp
create_mp4_single(b, frame, frame_sz, w, h, fps) ==
  LET duration == 1000 \div fps
      b1 == wr_all(Writer(b), wr_ftyp)
      mdat_off == to_u32(b1.buf.size + 8)
  IN  wr_all(b1, wr_mdat(<< frame >>, << frame_sz >>, 1)
                 \o create_mp4_head(to_u32(duration), w, h)
                 \o wr_stbl(w, h, << frame_sz >>, << duration >>, 1, mdat_off)
                 \o << fin("minf_s"), fin("mdia_s"), fin("trak_s"), fin("moov_s") >>).buf

\* if (!mp4_output && frame_data) { ... create_mp4(...) }
built_output_single ==
  IF mp4_output = NULL /\ frames # NULL
    THEN LET frame_sz == video_width * video_height * 4
         IN  Ptr(create_mp4_single(buf_init(frame_sz + 4096), Deref(frames), frame_sz,
                                   video_width, video_height, video_fps))
    ELSE mp4_output

\* init_encoder frees mp4_output and its data without resetting the pointer;
\* with a pointer freed before, the two free calls are a double free, which
\* the allocator survives or traps on
init_encoder_single(width, height, fps) ==
  /\ wasm = "single_frame"
  /\ \/ /\ mp4_output' = (IF mp4_output = NULL THEN NULL ELSE Freed(Deref(mp4_output)))
        /\ \E s \in UninitSeeds : frames' = Ptr(Rgba(s, width, height))
        /\ video_width' = width
        /\ video_height' = height
        /\ video_fps' = fps
        /\ ret' = Ret("init_encoder", 1, "none")
        /\ released' = (IF mp4_output # NULL THEN 2 ELSE 0) + (IF frames # NULL THEN 1 ELSE 0)
        /\ UNCHANGED wasm
     \/ /\ mp4_output # NULL /\ IsFreed(mp4_output)
        /\ wasm' = "trapped"
        /\ ret' = Ret("init_encoder", 0, "trap")
        /\ released' = 0
        /\ UNCHANGED << mp4_output, frames, video_width, video_height, video_fps >>
  /\ UNCHANGED << frame_count, frame_capacity, wc_vars, tbl_vars, conv >>

\* add_frame: memcpy(frame_data, rgba_data, width * height * 4)
add_frame_single(rgba_seed, width, height) ==
  /\ wasm = "single_frame"
  /\ IF frames = NULL \/ width # video_width \/ height # video_height
       THEN /\ ret' = Ret("add_frame", 0, "none")
            /\ UNCHANGED frames
       ELSE /\ frames' = Ptr(Rgba(rgba_seed, width, height))
            /\ ret' = Ret("add_frame", 1, "none")
  /\ released' = 0
  /\ UNCHANGED << mp4_output, frame_count, frame_capacity, video_width, video_height,
                  video_fps, wc_vars, tbl_vars, wasm, conv >>

\* return mp4_output ? mp4_output->data : NULL; through a freed pointer the
\* load yields the data pointer of the freed buffer or whatever replaced it
get_video_buffer_single ==
  /\ wasm = "single_frame"
  /\ mp4_output' = built_output_single
  /\ ret' = Ret("get_video_buffer", 0,
                IF mp4_output' = NULL THEN "null"
                ELSE IF IsFreed(mp4_output') THEN "stale" ELSE "data")
  /\ released' = 0
  /\ UNCHANGED << frames, frame_count, frame_capacity, video_width, video_height, video_fps,
                  wc_vars, tbl_vars, wasm, conv >>

\* return mp4_output ? mp4_output->size : 0; through a freed pointer the load
\* yields the old size or whatever the allocator wrote there
get_video_size_single ==
  /\ wasm = "single_frame"
  /\ mp4_output' = built_output_single
  /\ \E v \in (IF mp4_output' = NULL THEN {0}
               ELSE IF IsFreed(mp4_output') THEN {Deref(mp4_output').size, 0}
               ELSE {Deref(mp4_output').size}) :
       ret' = Ret("get_video_size", v, "none")
  /\ released' = 0
  /\ UNCHANGED << frames, frame_count, frame_capacity, video_width, video_height, video_fps,
                  wc_vars, tbl_vars, wasm, conv >>

\* *out_size = get_video_size(); return get_video_buffer();
finalize_video_single ==
  /\ wasm = "single_frame"
  /\ mp4_output' = built_output_single
  /\ \E v \in (IF mp4_output' = NULL THEN {0}
               ELSE IF IsFreed(mp4_output') THEN {Deref(mp4_output').size, 0}
               ELSE {Deref(mp4_output').size}) :
       ret' = Ret("finalize_video", v,
                  IF mp4_output' = NULL THEN "null"
                  ELSE IF IsFreed(mp4_output') THEN "stale" ELSE "data")
  /\ released' = 0
  /\ UNCHANGED << frames, frame_count, frame_capacity, video_width, video_height, video_fps,
                  wc_vars, tbl_vars, wasm, conv >>

\* cleanup frees and resets both pointers; on a pointer freed before it is a
\* double free
cleanup_single ==
  /\ wasm = "single_frame"
  /\ \/ /\ mp4_output' = NULL
        /\ frames' = NULL
        /\ ret' = Ret("cleanup", 0, "none")
        /\ released' = (IF mp4_output # NULL THEN 2 ELSE 0) + (IF frames # NULL THEN 1 ELSE 0)
        /\ UNCHANGED wasm
     \/ /\ mp4_output # NULL /\ IsFreed(mp4_output)
        /\ wasm' = "trapped"
        /\ ret' = Ret("cleanup", 0, "trap")
        /\ released' = 0
        /\ UNCHANGED << mp4_output, frames >>
  /\ UNCHANGED << frame_count, frame_capacity, video_width, video_height, video_fps,
                  wc_vars, tbl_vars, conv >>

InitSingle ==
  /\ wasm = "single_frame"
  /\ mp4_output = NULL
  /\ frames = NULL
  /\ frame_count = 0
  /\ frame_capacity = 0
  /\ video_width = 0
  /\ video_height = 0
  /\ video_fps = 10
  /\ muxer = NULL
  /\ wc_finalized = 0
  /\ last_config = NULL
  /\ ret = Ret("none", 0, "none")
  /\ released = 0
  /\ conv = NoConversion
  /\ arr = <<>>
  /\ tbl = buf_init(0)

NextSingle ==
  \/ \E w \in Widths, h \in Heights, f \in FpsValues : init_encoder_single(w, h, f)
  \/ \E seed \in SinglePixelSeeds, w \in Widths, h \in Heights : add_frame_single(seed, w, h)
  \/ get_video_buffer_single
  \/ get_video_size_single
  \/ finalize_video_single
  \/ cleanup_single

SpecSingle == InitSingle /\ [][NextSingle]_vars

\* ------------------------------------------- encodeFramesWithWebCodecs --
\* One call of encodeFramesWithWebCodecs (webcodecs.ts): conv holds the
\* JavaScript side.  frames: frames.length; encoded: frames handed to
\* encoder.encode; pending: chunks the encoder has not delivered yet; holds:
\* the encoder keeps its pending chunks until flush() is called; loop: the
\* encodeAllFrames loop; flush: the promise of encoder.flush(); inner: the
\* promise built with new Promise; outer: the promise the caller holds; pc:
\* "finalized" between the two muxer calls of the flush handler.
FrameWidths == {2, 3}
FrameHeights == {2}
Even(x) == (x \div 2) * 2

WebCalls ==
  { [entry |-> "encodeFramesWithWebCodecs", fw |-> w, fh |-> h, frames |-> n,
     encoded |-> 0, pending |-> 0, processedFrames |-> 0, holds |-> FALSE,
     encoder |-> "configured", loop |-> "running", flush |-> "none",
     inner |-> "pending", outer |-> "pending", result |-> << >>, pc |-> "start"] :
    w \in FrameWidths, h \in FrameHeights, n \in 1..MaxWcFrames }

InitWebCodecs ==
  /\ wasm = "webcodecs_muxer"
  /\ mp4_output = NULL
  /\ frames = NULL
  /\ frame_count = 0
  /\ frame_capacity = 0
  /\ video_width = 0
  /\ video_height = 0
  /\ video_fps = 10
  /\ muxer = NULL
  /\ wc_finalized = 0
  /\ last_config = NULL
  /\ ret = Ret("none", 0, "none")
  /\ released = 0
  /\ conv \in WebCalls
  /\ arr = <<>>
  /\ tbl = buf_init(0)

\* reject(...) / resolve(...) of the inner promise: only the first call counts
Settle(promise, outcome) == IF promise = "pending" THEN outcome ELSE promise

\* if (!initMuxer(evenWidth, evenHeight)) throw ...; new VideoEncoder; configure
encodeFramesWithWebCodecs_initMuxer ==
  /\ conv.pc = "start"
  /\ init_webcodecs_muxer_effect(Even(conv.fw), Even(conv.fh))
  /\ conv' = [conv EXCEPT !.pc = "idle"]

\* one iteration of encodeAllFrames: encoder.encode(videoFrame), or an
\* exception (createImageBitmap, encode on a closed encoder) caught by
\* catch (error) { cleanupMuxer(); reject(error); }
encodeAllFrames_iteration ==
  /\ conv.pc = "idle"
  /\ conv.loop = "running"
  /\ conv.encoded < conv.frames
  /\ \/ /\ conv.encoder = "configured"
        /\ conv' = [conv EXCEPT !.encoded = @ + 1, !.pending = @ + 1]
        /\ UNCHANGED << raw_vars, wc_vars, tbl_vars, wasm, ret, released >>
     \/ /\ cleanup_webcodecs_muxer_effect
        /\ conv' = [conv EXCEPT !.loop = "stopped", !.inner = Settle(@, "rejected")]

\* the output callback: addH264Frame, then reject on failure, or count the
\* frame and, with the last one, call encoder.flush()
encoder_output ==
  /\ conv.pc = "idle"
  /\ conv.encoder = "configured"
  /\ conv.pending > 0
  /\ ~conv.holds
  /\ \E c \in Chunks :
       add_h264_frame_effect(c.data, (conv.encoded - conv.pending) * 33333, c.is_keyframe)
  /\ conv' = IF ret'.val = 0
               THEN [conv EXCEPT !.pending = @ - 1, !.inner = Settle(@, "rejected")]
               ELSE [conv EXCEPT !.pending = @ - 1,
                                 !.processedFrames = @ + 1,
                                 !.flush = IF conv.processedFrames + 1 = conv.frames
                                             THEN "pending" ELSE @]

\* the encoder keeps the chunks it has not delivered until flush() is called
encoder_holds ==
  /\ conv.pc = "idle"
  /\ conv.encoder = "configured"
  /\ conv.pending > 0
  /\ ~conv.holds
  /\ conv.flush = "none"
  /\ conv' = [conv EXCEPT !.holds = TRUE]
  /\ UNCHANGED << raw_vars, wc_vars, tbl_vars, wasm, ret, released >>

\* the error callback: cleanupMuxer(); reject(...); the encoder is closed and
\* a pending flush() rejects
encoder_error ==
  /\ conv.pc = "idle"
  /\ conv.encoder = "configured"
  /\ conv.outer = "pending"
  /\ cleanup_webcodecs_muxer_effect
  /\ conv' = [conv EXCEPT !.encoder = "closed", !.pending = 0,
                          !.flush = IF @ = "pending" THEN "rejected" ELSE @,
                          !.inner = Settle(@, "rejected")]

\* encoder.flush() settles: it rejects (no handler is attached for that), or
\* the then-handler runs: encoder.close(), finalizeMp4(outSizePtr), reject on
\* a null pointer, else copy the bytes
flush_settles ==
  /\ conv.pc = "idle"
  /\ conv.flush = "pending"
  /\ \/ /\ conv' = [conv EXCEPT !.flush = "rejected"]
        /\ UNCHANGED << raw_vars, wc_vars, tbl_vars, wasm, ret, released >>
     \/ /\ finalize_webcodecs_mp4_effect
        /\ conv' = IF ret'.ptr = "data"
                     THEN [conv EXCEPT !.flush = "fulfilled", !.encoder = "closed",
                                       !.pc = "finalized",
                                       !.result = SubSeq(Deref(muxer').output.data, 1, ret'.val)]
                     ELSE [conv EXCEPT !.flush = "fulfilled", !.encoder = "closed",
                                       !.inner = Settle(@, "rejected")]

\* the rest of the then-handler: cleanupMuxer(); resolve(result)
flush_then_resolve ==
  /\ conv.pc = "finalized"
  /\ cleanup_webcodecs_muxer_effect
  /\ conv' = [conv EXCEPT !.pc = "idle", !.inner = Settle(@, "resolved")]

\* return await new Promise(...); catch (error) { cleanupMuxer(); throw error; }
await_inner ==
  /\ conv.pc = "idle"
  /\ conv.outer = "pending"
  /\ conv.inner # "pending"
  /\ IF conv.inner = "resolved"
       THEN /\ conv' = [conv EXCEPT !.outer = "resolved"]
            /\ UNCHANGED << raw_vars, wc_vars, tbl_vars, wasm, ret, released >>
       ELSE /\ cleanup_webcodecs_muxer_effect
            /\ conv' = [conv EXCEPT !.outer = "rejected"]

NextWebCodecs ==
  \/ encodeFramesWithWebCodecs_initMuxer
  \/ encodeAllFrames_iteration
  \/ encoder_output
  \/ encoder_holds
  \/ encoder_error
  \/ flush_settles
  \/ flush_then_resolve
  \/ await_inner

SpecWebCodecs == InitWebCodecs /\ [][NextWebCodecs]_vars

\* The event loop runs every task and microtask that is queued: the call
\* itself, the handlers of settled promises, the callbacks of chunks the
\* encoder delivers.  Nothing obliges the encoder to report an error.
SpecWebCodecsFair ==
  /\ SpecWebCodecs
  /\ WF_vars(encodeFramesWithWebCodecs_initMuxer)
  /\ WF_vars(encodeAllFrames_iteration)
  /\ WF_vars(encoder_output)
  /\ WF_vars(flush_settles)
  /\ WF_vars(flush_then_resolve)
  /\ WF_vars(await_inner)

\* ------------------------------------------------------- long recordings --
\* SpecTiming drives the compressed muxer with timestamps of a recording longer
\* than two minutes: 143165577 is the first number of microseconds whose
\* product with 30 does not fit in a uint32_t.
LongTimestamps == {0, 100000, 143165577}

InitTiming ==
  /\ Init
  /\ wasm = "webcodecs_muxer"

NextTiming ==
  \/ \E w \in WcWidths, h \in WcHeights : init_webcodecs_muxer(w, h)
  \/ \E ts \in LongTimestamps : add_h264_frame(<< 101 >>, ts, 1)
  \/ finalize_webcodecs_mp4
  \/ cleanup_webcodecs_muxer

SpecTiming == InitTiming /\ [][NextTiming]_vars

\* -------------------------------------------------------- optimizeMP4 --
\* Two calls of optimizeMP4 (ffmpeg.ts) on one machine.  conv.now is the
\* millisecond clock Date.now() reads, conv.fs the temporary directory: the
\* content of the file at << kind, stamp >>, 0 when there is no such file.  The
\* input buffer of call p has content p, ffmpeg turns content c into 10 + c.
MaxClock == 2
OptimizeCalls == {1, 2}
TempPaths == {"input", "output"} \X (0..MaxClock)

InitOptimize ==
  /\ wasm = "ffmpeg"
  /\ mp4_output = NULL
  /\ frames = NULL
  /\ frame_count = 0
  /\ frame_capacity = 0
  /\ video_width = 0
  /\ video_height = 0
  /\ video_fps = 10
  /\ muxer = NULL
  /\ wc_finalized = 0
  /\ last_config = NULL
  /\ ret = Ret("none", 0, "none")
  /\ released = 0
  /\ conv = [entry |-> "optimizeMP4", now |-> 0,
             pc |-> [p \in OptimizeCalls |-> "called"],
             stamp |-> [p \in OptimizeCalls |-> 0],
             fs |-> [f \in TempPaths |-> 0],
             out |-> [p \in OptimizeCalls |-> 0]]
  /\ arr = <<>>
  /\ tbl = buf_init(0)

\* the clock Date.now() reads moves on
clock_tick ==
  /\ wasm = "ffmpeg"
  /\ conv.now < MaxClock
  /\ conv' = [conv EXCEPT !.now = @ + 1]
  /\ UNCHANGED << raw_vars, wc_vars, tbl_vars, wasm, ret, released >>

\* inputPath = `gif2video-input-${Date.now()}.mp4`, outputPath likewise
optimizeMP4_paths(p) ==
  /\ wasm = "ffmpeg"
  /\ conv.pc[p] = "called"
  /\ conv' = [conv EXCEPT !.pc[p] = "writeFile", !.stamp[p] = conv.now]
  /\ UNCHANGED << raw_vars, wc_vars, tbl_vars, wasm, ret, released >>

\* the try block, one awaited operation per step: writeFile(inputPath),
\* execAsync(ffmpeg -i inputPath ... -y outputPath), readFile(outputPath);
\* ffmpeg and readFile throw when their file does not exist
optimizeMP4_try(p) ==
  /\ wasm = "ffmpeg"
  /\ LET in == << "input", conv.stamp[p] >>
         out == << "output", conv.stamp[p] >>
     IN  \/ /\ conv.pc[p] = "writeFile"
            /\ conv' = [conv EXCEPT !.fs[in] = p, !.pc[p] = "execAsync"]
         \/ /\ conv.pc[p] = "execAsync"
            /\ conv' = IF conv.fs[in] = 0
                         THEN [conv EXCEPT !.pc[p] = "unlink input"]
                         ELSE [conv EXCEPT !.fs[out] = 10 + conv.fs[in],
                                           !.pc[p] = "readFile"]
         \/ /\ conv.pc[p] = "readFile"
            /\ conv' = [conv EXCEPT !.out[p] = conv.fs[out], !.pc[p] = "unlink input"]
  /\ UNCHANGED << raw_vars, wc_vars, tbl_vars, wasm, ret, released >>

\* the finally block: unlink(inputPath), then unlink(outputPath), errors
\* ignored; then the call settles (rejected when nothing was read)
optimizeMP4_finally(p) ==
  /\ wasm = "ffmpeg"
  /\ \/ /\ conv.pc[p] = "unlink input"
        /\ conv' = [conv EXCEPT !.fs[<< "input", conv.stamp[p] >>] = 0,
                                !.pc[p] = "unlink output"]
     \/ /\ conv.pc[p] = "unlink output"
        /\ conv' = [conv EXCEPT !.fs[<< "output", conv.stamp[p] >>] = 0,
                                !.pc[p] = "settled"]
  /\ UNCHANGED << raw_vars, wc_vars, tbl_vars, wasm, ret, released >>

NextOptimize ==
  \/ clock_tick
  \/ \E p \in OptimizeCalls : optimizeMP4_paths(p)
  \/ \E p \in OptimizeCalls : optimizeMP4_try(p)
  \/ \E p \in OptimizeCalls : optimizeMP4_finally(p)

SpecOptimize == InitOptimize /\ [][NextOptimize]_vars

\* ------------------------------------------------- table writers alone --
\* SpecTables hands the table writers arrays of every shape up to MaxTableLen:
\* wr_stts and wr_stsz of the raw muxer get the array itself, write_stsz of the
\* compressed muxer a session whose frames have the array's elements as sizes.
TableArrays == UNION {[1..n -> TableValues] : n \in 1..MaxTableLen}

InitTables ==
  /\ wasm = "tables"
  /\ mp4_output = NULL
  /\ frames = NULL
  /\ frame_count = 0
  /\ frame_capacity = 0
  /\ video_width = 0
  /\ video_height = 0
  /\ video_fps = 10
  /\ muxer = NULL
  /\ wc_finalized = 0
  /\ last_config = NULL
  /\ ret = Ret("none", 0, "none")
  /\ released = 0
  /\ conv = NoConversion
  /\ arr \in TableArrays
  /\ tbl = buf_init(0)

call_wr_stts ==
  /\ tbl' = wr_all(Writer(buf_init(4096)), wr_stts(arr, Len(arr))).buf
  /\ ret' = Ret("wr_stts", 0, "none")
  /\ UNCHANGED << raw_vars, wc_vars, wasm, arr >>
  /\ UNCHANGED released
  /\ UNCHANGED conv

call_wr_stsz ==
  /\ tbl' = wr_all(Writer(buf_init(4096)), wr_stsz(arr, Len(arr))).buf
  /\ ret' = Ret("wr_stsz", 0, "none")
  /\ UNCHANGED << raw_vars, wc_vars, wasm, arr >>
  /\ UNCHANGED released
  /\ UNCHANGED conv

\* the session write_stsz reads: one frame of arr[i] bytes per element
SizedFrames ==
  [frames |-> [i \in 1..Len(arr) |-> [data |-> [k \in 1..arr[i] |-> 0], size |-> arr[i],
                                      timestamp |-> to_u32(0), is_keyframe |-> 1]],
   frame_count |-> Len(arr)]

call_write_stsz ==
  /\ tbl' = buffer_write_all(Writer(buffer_init(1048576)), write_stsz(SizedFrames)).buf
  /\ ret' = Ret("write_stsz", 0, "none")
  /\ UNCHANGED << raw_vars, wc_vars, wasm, arr >>
  /\ UNCHANGED released
  /\ UNCHANGED conv

NextTables == call_wr_stts \/ call_wr_stsz \/ call_write_stsz

SpecTables == InitTables /\ [][NextTables]_vars

\* -------------------------------------------------- growable buffers --
\* SpecBuffer appends to one buffer of either muxer (wasm tells which struct:
\* Mp4Buf of the raw muxer, Buffer of the compressed one), with realloc
\* succeeding or returning NULL.  The buffers start with BufferCapacity bytes
\* in place of the 4096 bytes and the 1 MiB of the code.
BufferCapacity == 8
MaxBufferSize == 12

AppendOps == { u8(7), u16(258), u32(16909060), bytes(<< 1, 2, 3, 4, 5 >>) }

\* the bytes an append call stores
OpBytes(op) ==
  CASE op[1] = "u8" -> << op[2] % U8 >>
    [] op[1] = "u16" -> be16(op[2] % U16)
    [] op[1] = "u32" -> be32(op[2])
    [] op[1] = "bytes" -> op[2]

\* buf_ensure when realloc returns NULL: capacity is raised, data is NULL (the
\* old block is lost); data = << >> stands for the NULL pointer
buf_ensure_realloc_fails(b, add) ==
  [b EXCEPT !.capacity = (b.size + add) * 2, !.data = << >>]

\* buffer_ensure when realloc returns NULL: nothing is assigned
buffer_ensure_realloc_fails(buf, needed) == buf

InitBuffer ==
  /\ wasm \in {"Mp4Buf", "Buffer"}
  /\ mp4_output = NULL
  /\ frames = NULL
  /\ frame_count = 0
  /\ frame_capacity = 0
  /\ video_width = 0
  /\ video_height = 0
  /\ video_fps = 10
  /\ muxer = NULL
  /\ wc_finalized = 0
  /\ last_config = NULL
  /\ ret = Ret("none", 0, "none")
  /\ released = 0
  /\ conv = NoConversion
  /\ arr = <<>>
  /\ tbl = buf_init(BufferCapacity)

\* wr_u8 / wr_u16 / wr_u32 / wr_bytes and buffer_write_*: ret.val is the number
\* of bytes requested, ret.ptr what realloc returned ("none": not called)
call_append(op) ==
  /\ wasm \in {"Mp4Buf", "Buffer"}
  /\ tbl.size + Len(OpBytes(op)) <= MaxBufferSize
  /\ tbl' = IF wasm = "Mp4Buf" THEN wr_call(Writer(tbl), op).buf
                               ELSE buffer_call(Writer(tbl), op).buf
  /\ ret' = Ret(op[1], Len(OpBytes(op)),
                IF tbl.size + Len(OpBytes(op)) > tbl.capacity THEN "data" ELSE "none")
  /\ UNCHANGED << raw_vars, wc_vars, wasm, arr, released, conv >>

\* the same calls when the realloc of the ensure step returns NULL: the store
\* that follows goes through the NULL data pointer (raw muxer: it lands in
\* low memory or traps) or past the block that was not enlarged (compressed)
call_append_realloc_fails(op) ==
  /\ wasm \in {"Mp4Buf", "Buffer"}
  /\ tbl.size + Len(OpBytes(op)) <= MaxBufferSize
  /\ tbl.size + Len(OpBytes(op)) > tbl.capacity
  /\ ret' = Ret(op[1], Len(OpBytes(op)), "null")
  /\ IF wasm = "Buffer"
       THEN /\ tbl' = LET e == buffer_ensure_realloc_fails(tbl, Len(OpBytes(op)))
                      IN  [e EXCEPT !.data = @ \o OpBytes(op), !.size = @ + Len(OpBytes(op))]
            /\ UNCHANGED wasm
       ELSE \/ /\ tbl' = LET e == buf_ensure_realloc_fails(tbl, Len(OpBytes(op)))
                         IN  [e EXCEPT !.size = @ + Len(OpBytes(op))]
               /\ UNCHANGED wasm
            \/ /\ tbl' = buf_ensure_realloc_fails(tbl, Len(OpBytes(op)))
               /\ wasm' = "trapped"
  /\ UNCHANGED << raw_vars, wc_vars, arr, released, conv >>

NextBuffer ==
  \/ \E op \in AppendOps : call_append(op)
  \/ \E op \in AppendOps : call_append_realloc_fails(op)

SpecBuffer == InitBuffer /\ [][NextBuffer]_vars

\* =========================================================== properties ==
\* The produced bytes are read back as an ISO base media file, independently of
\* the writers: a box is a 4-byte big-endian length, a 4-byte type and a payload.
rd_u32(d, off) == ((d[off + 1] * 256 + d[off + 2]) * 256 + d[off + 3]) * 256 + d[off + 4]
box_type(d, off) == SubSeq(d, off + 5, off + 8)

\* where the child boxes of the box at off start, relative to off (0: no children):
\* plain containers, full boxes with an entry count, visual sample entries
ChildrenAt(d, off) ==
  LET t == box_type(d, off)
  IN  IF t \in {fourcc("moov"), fourcc("trak"), fourcc("mdia"), fourcc("minf"),
                fourcc("dinf"), fourcc("stbl")} THEN 8
      ELSE IF t \in {fourcc("dref"), fourcc("stsd")} THEN 16
      ELSE IF t \in {fourcc("avc1"), fourcc("raw ")} THEN 86
      ELSE 0

\* the length a sample table box must have for the entry count it declares
TableExtent(d, off) ==
  LET t == box_type(d, off)
  IN  IF t = fourcc("stts") THEN 16 + 8 * rd_u32(d, off + 12)
      ELSE IF t = fourcc("stsc") THEN 16 + 12 * rd_u32(d, off + 12)
      ELSE IF t \in {fourcc("stco"), fourcc("stss")} THEN 16 + 4 * rd_u32(d, off + 12)
      ELSE IF t = fourcc("stsz")
        THEN 20 + (IF rd_u32(d, off + 12) = 0 THEN 4 * rd_u32(d, off + 16) ELSE 0)
      ELSE rd_u32(d, off)

\* the bytes d[lo .. hi) are a run of boxes that ends exactly at hi, every box at
\* least a header long, its children (if it has any) again such a run that ends
\* exactly where the box ends
RECURSIVE Tiles(_, _, _)
Tiles(d, lo, hi) ==
  \/ lo = hi
  \/ /\ lo + 8 <= hi
     /\ hi <= Len(d)
     /\ LET n == rd_u32(d, lo)
        IN  /\ n >= 8
            /\ lo + n <= hi
            /\ n = TableExtent(d, lo)
            /\ ChildrenAt(d, lo) > 0 =>
                 /\ ChildrenAt(d, lo) <= n
                 /\ Tiles(d, lo + ChildrenAt(d, lo), lo + n)
            /\ Tiles(d, lo + n, hi)

\* the offset of the first (last) box of the given type among the boxes of
\* d[lo .. hi), -1 when there is none
RECURSIVE FindBox(_, _, _, _)
FindBox(d, lo, hi, type) ==
  IF lo + 8 > hi \/ rd_u32(d, lo) < 8 THEN -1
  ELSE IF box_type(d, lo) = fourcc(type) THEN lo
  ELSE FindBox(d, lo + rd_u32(d, lo), hi, type)

RECURSIVE FindLastBox(_, _, _, _, _)
FindLastBox(d, lo, hi, type, found) ==
  IF lo + 8 > hi \/ rd_u32(d, lo) < 8 THEN found
  ELSE FindLastBox(d, lo + rd_u32(d, lo), hi, type,
                   IF box_type(d, lo) = fourcc(type) THEN lo ELSE found)

Child(d, parent, type) ==
  IF parent < 0 THEN -1
  ELSE FindBox(d, parent + ChildrenAt(d, parent), parent + rd_u32(d, parent), type)

MdiaOf(d, moov) == Child(d, Child(d, moov, "trak"), "mdia")
StblOf(d, moov) == Child(d, Child(d, MdiaOf(d, moov), "minf"), "stbl")

\* the k-th 32-bit field (k = 0, 1, ..) of the full box at off, after version/flags
Field(d, off, k) == rd_u32(d, off + 12 + 4 * k)

\* the output of the raw muxer and its movie box
RawHasOutput == wasm = "gif2video" /\ mp4_output # NULL
RawOut == Deref(mp4_output).data
RawMoov == FindBox(RawOut, 0, Len(RawOut), "moov")

\* the output of the compressed muxer; the movie box the last finalize wrote is
\* the last one of the buffer
WcHasOutput == wasm = "webcodecs_muxer" /\ muxer # NULL /\ Deref(muxer).output.size > 0
WcOut == Deref(muxer).output.data
WcMoov == FindLastBox(WcOut, 0, Len(WcOut), "moov", -1)
\* the state finalize_webcodecs_mp4 leaves when it returns a container
WcFinalized == wasm = "webcodecs_muxer" /\ ret.fn = "finalize_webcodecs_mp4" /\ ret.ptr = "data"
WcFrames == Deref(muxer).frames

\* C1: raw muxer: the single stco entry of a finalized output is the offset, in
\* the buffer, of the first payload byte of the data box, i.e. the size of ftyp
\* plus the size of the complete moov plus 8.
C1_StcoIsPayloadOffset ==
  RawHasOutput =>
    LET d == RawOut
        stco == Child(d, StblOf(d, RawMoov), "stco")
        mdat == FindBox(d, 0, Len(d), "mdat")
    IN  /\ stco >= 0
        /\ mdat >= 0
        /\ Field(d, stco, 0) = 1
        /\ Field(d, stco, 1) = mdat + 8
        /\ mdat = rd_u32(d, 0) + rd_u32(d, RawMoov)

\* C2: both muxers: the finalized buffer is a run of top-level boxes whose
\* lengths add up to exactly the size returned, and every box's length field is
\* the extent from that field to the end of its last nested byte.
C2_BoxesTile ==
  /\ RawHasOutput =>
       /\ Len(RawOut) = Deref(mp4_output).size
       /\ Tiles(RawOut, 0, Deref(mp4_output).size)
       /\ ret.fn \in {"get_video_size", "finalize_video"} => ret.val = Len(RawOut)
  /\ WcHasOutput =>
       /\ Len(WcOut) = Deref(muxer).output.size
       /\ Tiles(WcOut, 0, Deref(muxer).output.size)
       /\ WcFinalized => ret.val = Len(WcOut)

\* C2 on an output of two samples, of either muxer (for the compressed muxer the
\* output of a second finalize)
C2_Witness ==
  \/ /\ RawHasOutput
     /\ ret.fn = "finalize_video"
     /\ Field(RawOut, Child(RawOut, StblOf(RawOut, RawMoov), "stsc"), 2) = 2
     /\ Child(RawOut, Child(RawOut, StblOf(RawOut, RawMoov), "stsd"), "raw ") >= 0
  \/ /\ WcFinalized
     /\ wc_finalized = 2
     /\ Field(WcOut, Child(WcOut, StblOf(WcOut, WcMoov), "stsc"), 2) = 2
     /\ Child(WcOut, Child(WcOut, Child(WcOut, StblOf(WcOut, WcMoov), "stsd"), "avc1"), "avcC") >= 0

\* C3: compressed muxer: after the first finalize of a freshly initialised
\* session the single stco entry is the offset of the data box plus its 8-byte
\* header, where the first stored sample begins.
C3_WcStcoIsPayloadOffset ==
  (WcFinalized /\ wc_finalized = 1) =>
    LET d == WcOut
        stco == Child(d, StblOf(d, WcMoov), "stco")
        mdat == FindBox(d, 0, Len(d), "mdat")
    IN  /\ stco >= 0
        /\ mdat >= 0
        /\ Field(d, stco, 0) = 1
        /\ Field(d, stco, 1) = mdat + 8
        /\ rd_u32(d, mdat + 8) = WcFrames[1].size
        /\ SubSeq(d, mdat + 13, mdat + 12 + WcFrames[1].size) = WcFrames[1].data

\* C3 on a fresh session of two frames: the data box follows the 32-byte ftyp
C3_Witness ==
  /\ WcFinalized
  /\ wc_finalized = 1
  /\ Deref(muxer).frame_count = 2
  /\ Field(WcOut, Child(WcOut, StblOf(WcOut, WcMoov), "stco"), 1) = 40

\* ---- the table a writer produced in SpecTables, read back
\* the (count, delta) pairs of a time-to-sample box at off
SttsCount(d, off) == Field(d, off, 0)
SttsPairs(d, off) ==
  [k \in 1..SttsCount(d, off) |-> << Field(d, off, 2 * k - 1), Field(d, off, 2 * k) >>]

\* the run-length decoding of a sequence of (count, delta) pairs
RECURSIVE Expand(_)
Expand(pairs) ==
  IF pairs = << >> THEN << >>
  ELSE [i \in 1..pairs[1][1] |-> pairs[1][2]] \o Expand(Tail(pairs))

RECURSIVE SumCounts(_)
SumCounts(pairs) == IF pairs = << >> THEN 0 ELSE pairs[1][1] + SumCounts(Tail(pairs))

AllEqual(a) == \A i \in 1..Len(a) : a[i] = a[1]

\* C4: wr_stts writes the greedy run-length encoding of the durations: the pairs
\* expand to the durations in order, adjacent pairs differ in delta, every count
\* is at least 1, the declared entry count is the number of pairs in the box,
\* and the counts add up to the number of samples.
C4_SttsIsRunLength ==
  ret.fn = "wr_stts" =>
    LET d == tbl.data
        pairs == SttsPairs(d, 0)
    IN  /\ box_type(d, 0) = fourcc("stts")
        /\ rd_u32(d, 0) = Len(d)
        /\ Len(d) = 16 + 8 * SttsCount(d, 0)
        /\ Expand(pairs) = arr
        /\ \A k \in 1..Len(pairs) : pairs[k][1] >= 1
        /\ \A k \in 1..(Len(pairs) - 1) : pairs[k][2] # pairs[k + 1][2]
        /\ SumCounts(pairs) = Len(arr)
        /\ AllEqual(arr) => pairs = << << Len(arr), arr[1] >> >>

\* C4 on the durations of the specification's examples
C4_Witness ==
  /\ ret.fn = "wr_stts"
  /\ \/ arr = <<10, 10, 20, 20, 10>>
        /\ SttsPairs(tbl.data, 0) = << <<2, 10>>, <<2, 20>>, <<1, 10>> >>
     \/ arr = <<100, 100, 150>>
        /\ SttsPairs(tbl.data, 0) = << <<2, 100>>, <<1, 150>> >>

\* a sample-size box in the shared-size form: one size and the sample count
SharedSizeForm(d, size, count) ==
  /\ box_type(d, 0) = fourcc("stsz")
  /\ rd_u32(d, 0) = Len(d)
  /\ Len(d) = 20
  /\ Field(d, 0, 0) = size
  /\ Field(d, 0, 1) = count

\* a sample-size box in the explicit form: shared size 0, the sample count, then
\* one size per sample in order
ExplicitForm(d, sizes) ==
  /\ box_type(d, 0) = fourcc("stsz")
  /\ rd_u32(d, 0) = Len(d)
  /\ Len(d) = 20 + 4 * Len(sizes)
  /\ Field(d, 0, 0) = 0
  /\ Field(d, 0, 1) = Len(sizes)
  /\ \A i \in 1..Len(sizes) : Field(d, 0, 1 + i) = sizes[i]

\* the sizes the compressed muxer records: each sample with its 4-byte length prefix
StoredSizes == [i \in 1..Len(arr) |-> arr[i] + 4]

WcStbl == StblOf(WcOut, WcMoov)
WcStss == Child(WcOut, WcStbl, "stss")
WcStssEntries == [k \in 1..Field(WcOut, WcStss, 0) |-> Field(WcOut, WcStss, k)]
\* the 1-based positions of the samples stored with the keyframe flag set
KeyPositions == {i \in 1..Len(WcFrames) : WcFrames[i].is_keyframe # 0}

\* C6: compressed muxer: the output of a finalize has no stss box if and only if
\* every sample of the session has its keyframe flag set.
C6_StssAbsentIffAllKey ==
  WcFinalized => (WcStss < 0 <=> KeyPositions = 1..Len(WcFrames))

\* C7: compressed muxer: a stss box written by finalize declares at least one
\* entry, as many as there are samples flagged as keyframes, and its entries are
\* the 1-based positions of those samples in strictly increasing order.
C7_StssListsKeyframes ==
  (WcFinalized /\ WcStss >= 0) =>
    /\ Field(WcOut, WcStss, 0) >= 1
    /\ Field(WcOut, WcStss, 0) = Cardinality(KeyPositions)
    /\ rd_u32(WcOut, WcStss) = 16 + 4 * Field(WcOut, WcStss, 0)
    /\ \A k \in 1..Len(WcStssEntries) : WcStssEntries[k] \in KeyPositions
    /\ \A k \in 1..(Len(WcStssEntries) - 1) : WcStssEntries[k] < WcStssEntries[k + 1]

\* C7 on the patterns [true, false] and [false, true, true]
C7_Witness ==
  /\ WcFinalized
  /\ WcStss >= 0
  /\ \/ KeyPositions = {1} /\ Len(WcFrames) = 2 /\ WcStssEntries = <<1>>
     \/ KeyPositions = {2, 3} /\ Len(WcFrames) = 3 /\ WcStssEntries = <<2, 3>>

\* the duration of sample i < N of the compressed session, in units of the media
\* timescale: the distance to the next sample's timestamp (microseconds)
WcTimestamp(i) == u32_int(WcFrames[i].timestamp)
WcSampleDuration(i, timescale) ==
  ((WcTimestamp(i + 1) - WcTimestamp(i)) * (timescale \div 1000)) \div 1000

\* C8: compressed muxer: the stts table written by finalize is the run-length
\* encoding of the samples' own durations: expanded, it gives one
\* duration per sample, that of sample i being the distance from its timestamp
\* to the next one's, and adjacent entries differ in delta.
C8_WcSttsIsRunLength ==
  (WcFinalized /\ \A i \in 1..(Len(WcFrames) - 1) : WcTimestamp(i) <= WcTimestamp(i + 1)) =>
    LET d == WcOut
        pairs == SttsPairs(d, Child(d, WcStbl, "stts"))
        timescale == Field(d, Child(d, MdiaOf(d, WcMoov), "mdhd"), 2)
    IN  /\ Len(Expand(pairs)) = Len(WcFrames)
        /\ \A i \in 1..(Len(WcFrames) - 1) : Expand(pairs)[i] = WcSampleDuration(i, timescale)
        /\ \A k \in 1..(Len(pairs) - 1) : pairs[k][2] # pairs[k + 1][2]

\* the sum over the entries of a time-to-sample table of count x delta
RECURSIVE SumDurations(_)
SumDurations(pairs) ==
  IF pairs = << >> THEN 0 ELSE pairs[1][1] * pairs[1][2] + SumDurations(Tail(pairs))

\* the movie, track and media header of the movie box at moov carry one
\* timescale and, as duration, the sum of the durations of the stts table
HeaderDurationsAgree(d, moov) ==
  LET mvhd == Child(d, moov, "mvhd")
      tkhd == Child(d, Child(d, moov, "trak"), "tkhd")
      mdhd == Child(d, MdiaOf(d, moov), "mdhd")
      total == SumDurations(SttsPairs(d, Child(d, StblOf(d, moov), "stts")))
  IN  /\ mvhd >= 0 /\ tkhd >= 0 /\ mdhd >= 0
      /\ Field(d, mvhd, 2) = Field(d, mdhd, 2)
      /\ Field(d, mvhd, 3) = total
      /\ Field(d, tkhd, 4) = total
      /\ Field(d, mdhd, 3) = total

\* C9: in every finalized output of either muxer the durations of mvhd, tkhd and
\* mdhd equal the sum of the sample durations of the stts table, in one timescale.
C9_DurationsAgree ==
  /\ RawHasOutput => HeaderDurationsAgree(RawOut, RawMoov)
  /\ WcFinalized => HeaderDurationsAgree(WcOut, WcMoov)

\* the sample tables of the movie box at moov describe one chunk of n samples
OneChunk(d, moov, n) ==
  LET stbl == StblOf(d, moov)
      stsc == Child(d, stbl, "stsc")
      stco == Child(d, stbl, "stco")
      stsz == Child(d, stbl, "stsz")
      stts == Child(d, stbl, "stts")
  IN  /\ stsc >= 0 /\ stco >= 0 /\ stsz >= 0 /\ stts >= 0
      /\ Field(d, stsc, 0) = 1
      /\ Field(d, stsc, 1) = 1
      /\ Field(d, stsc, 2) = n
      /\ Field(d, stsc, 3) = 1
      /\ Field(d, stco, 0) = 1
      /\ Field(d, stsz, 1) = n
      /\ SumCounts(SttsPairs(d, stts)) = n

\* C10: every output a finalize returns describes exactly one chunk that holds
\* the N samples accepted in the session: stsc has the one entry (1, N, 1), stco
\* has one entry, stsz counts N samples and the stts counts add up to N.
C10_OneChunkOfAllSamples ==
  /\ (RawHasOutput /\ ret.ptr = "data") => OneChunk(RawOut, RawMoov, frame_count)
  /\ WcFinalized => OneChunk(WcOut, WcMoov, Deref(muxer).frame_count)

\* ---- session states
\* the raw muxer holds an initialised session (Open or Finalized)
RawInitialised == wasm = "gif2video" /\ frames # NULL
\* the three exported calls that finalize a raw session
RawFinalizeCall == get_video_buffer \/ get_video_size \/ finalize_video
WcInitialised == wasm = "webcodecs_muxer" /\ muxer # NULL

\* C11: a finalize call on an initialised session of zero samples returns the
\* no-data result (no pointer to data, size 0), leaves no box in any output
\* buffer, and leaves the session as it was, open for add calls.
C11_EmptyFinalize ==
  [][ /\ (RawInitialised /\ frame_count = 0 /\ RawFinalizeCall) =>
           /\ ret'.val = 0
           /\ ret'.ptr # "data"
           /\ mp4_output' = NULL
           /\ UNCHANGED raw_vars
      /\ (WcInitialised /\ Deref(muxer).frame_count = 0 /\ finalize_webcodecs_mp4) =>
           /\ ret'.val = 0
           /\ ret'.ptr = "null"
           /\ Deref(muxer').output.size = 0
           /\ Deref(muxer').output.data = << >>
           /\ UNCHANGED wc_vars
    ]_vars

\* C11 after a finalize of an initialised, empty session of either muxer
C11_Witness ==
  \/ /\ RawInitialised /\ frame_count = 0
     /\ ret = Ret("finalize_video", 0, "null")
  \/ /\ WcInitialised /\ Deref(muxer).frame_count = 0
     /\ ret = Ret("finalize_webcodecs_mp4", 0, "null")

\* the session has been finalized: an output was built since the last init
RawSessionFinalized == wasm = "gif2video" /\ mp4_output # NULL
WcSessionFinalized == wasm = "webcodecs_muxer" /\ muxer # NULL /\ wc_finalized >= 1

\* C12: a finalize call on an already finalized session, with no init in
\* between, is reported as an error: it returns no container (null pointer,
\* size 0) and leaves the output buffer and its size as they were.  For the
\* raw muxer the case taken is a get_video_buffer or finalize_video call made
\* right after a call that handed the container out.
C12_SecondFinalizeIsError ==
  [][ /\ ((get_video_buffer \/ finalize_video) /\ RawSessionFinalized /\ ret.ptr = "data") =>
           /\ ret'.ptr # "data"
           /\ ret'.val = 0
           /\ UNCHANGED mp4_output
      /\ (finalize_webcodecs_mp4 /\ WcSessionFinalized) =>
           /\ ret'.ptr # "data"
           /\ ret'.val = 0
           /\ Deref(muxer').output = Deref(muxer).output
    ]_vars

\* any add call of the raw / of the compressed muxer
AddFrameCall ==
  \E seed \in PixelSeeds, w \in Widths, h \in Heights, d \in Delays : add_frame(seed, w, h, d)
AddH264FrameCall ==
  \E c \in Chunks : add_h264_frame(c.data, c.timestamp, c.is_keyframe)

\* C13: once the session has been finalized, an add call returns 0 and leaves
\* the sample sequence and the sample count as they were, until a new init.
C13_AddOnlyInOpen ==
  [][ /\ (AddFrameCall /\ RawSessionFinalized) =>
           /\ ret'.val = 0
           /\ UNCHANGED << frames, frame_count >>
      /\ (AddH264FrameCall /\ WcSessionFinalized) =>
           /\ ret'.val = 0
           /\ Deref(muxer').frames = Deref(muxer).frames
           /\ Deref(muxer').frame_count = Deref(muxer).frame_count
    ]_vars

\* ---- heap blocks a session owns
\* raw muxer: the frames array (malloc in init_encoder), one RGB copy per stored
\* frame (malloc in rgba_to_rgb24), and, once built, the Mp4Buf and its data
RawOwnedBlocks ==
  (IF frames # NULL THEN 1 + Len(Deref(frames)) ELSE 0) + (IF mp4_output # NULL THEN 2 ELSE 0)
\* compressed muxer: the Muxer, its output data (malloc in buffer_init), one
\* payload copy per stored frame, and the configuration record when one is set
WcOwnedBlocks ==
  IF muxer = NULL THEN 0
  ELSE 2 + Len(Deref(muxer).frames) + (IF Deref(muxer).decoder_config # NULL THEN 1 ELSE 0)

InitEncoderCall ==
  \E w \in Widths, h \in Heights, fps \in FpsValues : init_encoder(w, h, fps)
InitWebcodecsMuxerCall ==
  \E w \in WcWidths, h \in WcHeights : init_webcodecs_muxer(w, h)

\* C14: an init call made while a session exists releases every heap block the
\* previous session owns (payload copies, output buffer, configuration record),
\* and the new session holds zero samples.
C14_InitReleasesPrevious ==
  [][ /\ (InitEncoderCall /\ RawInitialised) =>
           /\ released' = RawOwnedBlocks
           /\ frame_count' = 0 /\ Deref(frames') = << >> /\ mp4_output' = NULL
      /\ (InitWebcodecsMuxerCall /\ WcInitialised) =>
           /\ released' = WcOwnedBlocks
           /\ Deref(muxer').frame_count = 0 /\ Deref(muxer').frames = << >>
    ]_vars

RawUninitialized == wasm = "gif2video" /\ frames = NULL
WcUninitialized == wasm = "webcodecs_muxer" /\ muxer = NULL

\* C15: a reset call from any state releases every heap block the session owns
\* and leaves the muxer uninitialised; in that state an add call returns 0, a
\* finalize call returns the no-data result, and a further reset releases
\* nothing and changes nothing.
C15_ResetReleasesAll ==
  [][ /\ cleanup =>
           /\ released' = RawOwnedBlocks
           /\ frames' = NULL /\ mp4_output' = NULL /\ frame_count' = 0
      /\ cleanup_webcodecs_muxer =>
           /\ released' = WcOwnedBlocks
           /\ muxer' = NULL
      /\ (RawUninitialized /\ cleanup) =>
           /\ released' = 0
           /\ UNCHANGED raw_vars
      /\ (WcUninitialized /\ cleanup_webcodecs_muxer) =>
           /\ released' = 0
           /\ UNCHANGED muxer
      /\ (RawUninitialized /\ AddFrameCall) =>
           /\ ret'.val = 0
           /\ UNCHANGED raw_vars
      /\ (WcUninitialized /\ AddH264FrameCall) =>
           /\ ret'.val = 0
           /\ UNCHANGED muxer
      /\ (RawUninitialized /\ RawFinalizeCall) =>
           /\ ret'.val = 0 /\ ret'.ptr # "data"
           /\ UNCHANGED raw_vars
      /\ (WcUninitialized /\ finalize_webcodecs_mp4) =>
           /\ ret'.val = 0 /\ ret'.ptr = "null"
           /\ UNCHANGED muxer
    ]_vars

\* C15 after a reset of a finalized session: the raw one gave up its output,
\* its frames array and a frame; the compressed one its Muxer, output data,
\* configuration record and a payload
C15_Witness ==
  \/ /\ RawUninitialized /\ ret.fn = "cleanup" /\ released >= 4
  \/ /\ WcUninitialized /\ ret.fn = "cleanup_webcodecs_muxer" /\ released >= 4

SetDecoderConfigFails == \E c \in Configs : set_decoder_config_malloc_fails(c)
AddH264FrameFails ==
  \E c \in Chunks : add_h264_frame_malloc_fails(c.data, c.timestamp, c.is_keyframe)
AddFrameFails ==
  \E seed \in PixelSeeds, w \in Widths, h \in Heights, d \in Delays :
    add_frame_alloc_fails(seed, w, h, d)

\* C16: a call of add_frame, add_h264_frame or set_decoder_config in which an
\* allocation fails returns 0 and leaves the session in its last good state:
\* sample sequence, sample count and configuration record exactly as before,
\* and the muxer still serving calls.
C16_AllocFailureKeepsSession ==
  [][ /\ SetDecoderConfigFails =>
           /\ ret'.val = 0
           /\ UNCHANGED muxer
      /\ AddH264FrameFails =>
           /\ ret'.val = 0
           /\ UNCHANGED muxer
      /\ AddFrameFails =>
           /\ ret'.val = 0
           /\ UNCHANGED << raw_vars, wasm >>
    ]_vars

\* an add_frame call whose width or height differs from the session's
AddFrameMismatch ==
  \E seed \in PixelSeeds, w \in Widths, h \in Heights, d \in Delays :
    /\ add_frame(seed, w, h, d)
    /\ w # video_width \/ h # video_height

\* every stored frame of the raw session holds width * height * 3 bytes
RawFramesSized ==
  RawInitialised =>
    \A i \in 1..Len(Deref(frames)) :
      /\ Deref(frames)[i].size = video_width * video_height * 3
      /\ Len(Deref(frames)[i].rgb_data) = video_width * video_height * 3

RawStsz == Child(RawOut, StblOf(RawOut, RawMoov), "stsz")

\* the stsz of the raw output is in the shared-size form with width * height * 3
RawStszShared ==
  RawHasOutput =>
    /\ RawStsz >= 0
    /\ rd_u32(RawOut, RawStsz) = 20
    /\ Field(RawOut, RawStsz, 0) = video_width * video_height * 3
    /\ Field(RawOut, RawStsz, 1) >= 1

\* C17: an add_frame call of the raw muxer whose width or height differs from
\* the session's returns 0 and changes nothing; so every stored sample has
\* width * height * 3 bytes and every output has a shared-size stsz of that
\* value.  (Every state has a step leaving it, an init call at least, so the
\* two state conjuncts are required of every reachable state.)
C17_RawSamplesOneSize ==
  [][ /\ (RawInitialised /\ AddFrameMismatch) =>
           /\ ret'.val = 0
           /\ UNCHANGED raw_vars
      /\ RawFramesSized
      /\ RawStszShared
    ]_vars

\* C17 after a rejected add_frame on a session that holds frames of 2 x 2
\* pixels, and at an output whose stsz gives the shared size 12
C17_Witness ==
  /\ RawHasOutput
  /\ video_width = 2 /\ video_height = 2
  /\ Field(RawOut, RawStsz, 0) = 12
  /\ ret = Ret("add_frame", 0, "none")
  /\ frame_count >= 2

\* ---- the avcC box of a finalized compressed output, read back
WcAvc1 == Child(WcOut, Child(WcOut, WcStbl, "stsd"), "avc1")
WcAvcC == Child(WcOut, WcAvc1, "avcC")
WcAvcCPayload ==
  [k \in 1..(rd_u32(WcOut, WcAvcC) - 8) |-> WcOut[WcAvcC + 8 + k]]

\* the record 01 42 00 1E FF E0 00
FallbackRecord == << 1, 66, 0, 30, 255, 224, 0 >>

\* C18: the avcC payload a finalize writes is the record of the most recent
\* set_decoder_config that succeeded in the current session, and the 7-byte
\* fallback record when none succeeded since the last init.
C18_AvcCIsLastConfig ==
  WcFinalized =>
    /\ WcAvcC >= 0
    /\ WcAvcCPayload = IF last_config # NULL THEN Deref(last_config) ELSE FallbackRecord

\* ---- what a conversion call returned, read back
rd_u16(d, off) == d[off + 1] * 256 + d[off + 2]
\* the visual sample entry of the file d and the width and height it declares
SampleEntry(d) ==
  LET moov == FindBox(d, 0, Len(d), "moov")
  IN  Child(d, Child(d, StblOf(d, moov), "stsd"), "raw ")
OutputWidth(d) == rd_u16(d, SampleEntry(d) + 32)
OutputHeight(d) == rd_u16(d, SampleEntry(d) + 34)

\* the call asks for a width or height that differs from the frames'
ConvResized ==
  /\ conv.entry # "none"
  /\ conv.delays # << >>
  /\ \/ conv.width # 0 /\ conv.width # conv.fw
     \/ conv.height # 0 /\ conv.height # conv.fh
RequestedWidth == IF conv.width # 0 THEN conv.width ELSE conv.fw
RequestedHeight == IF conv.height # 0 THEN conv.height ELSE conv.fh

\* C19: a convertFrames or convertGifBuffer call whose options.width or
\* options.height differs from the frames' dimensions has every frame accepted
\* by add_frame and, unless init_encoder could not allocate, completes and
\* returns an MP4 of the requested width and height.
C19_CustomDimensionsResize ==
  ConvResized =>
    /\ ret.fn = "add_frame" => ret.val = 1
    /\ \A k \in 1..Len(conv.results) :
         conv.results[k].ok =>
           /\ SampleEntry(conv.results[k].data) >= 0
           /\ OutputWidth(conv.results[k].data) = RequestedWidth
           /\ OutputHeight(conv.results[k].data) = RequestedHeight

\* the timing a file carries: the (count, delta) pairs of stts, and timescale
\* and duration of the movie, track and media headers
Timing(d) ==
  LET moov == FindBox(d, 0, Len(d), "moov")
      mvhd == Child(d, moov, "mvhd")
      tkhd == Child(d, Child(d, moov, "trak"), "tkhd")
      mdhd == Child(d, MdiaOf(d, moov), "mdhd")
  IN  << SttsPairs(d, Child(d, StblOf(d, moov), "stts")),
         Field(d, mvhd, 2), Field(d, mvhd, 3), Field(d, tkhd, 4),
         Field(d, mdhd, 2), Field(d, mdhd, 3) >>

\* C20: two conversions of the same frames that differ only in options.fps
\* return files of different timing (sample durations, total duration).
C20_FpsSetsTiming ==
  ( /\ Len(conv.results) = 2
    /\ conv.delays # << >>
    /\ conv.fps[1] # conv.fps[2]
    /\ conv.results[1].ok /\ conv.results[2].ok )
  => Timing(conv.results[1].data) # Timing(conv.results[2].data)

\* C21: when the optimizer throws or rejects, convertFrames and
\* convertGifBuffer still resolve, with exactly the bytes encodeFramesToMp4
\* took from the muxer.
C21_OptimizerFailureFallsBack ==
  \A k \in 1..Len(conv.returned) :
    (conv.results[k].ok /\ ~conv.returned[k].optimized) =>
      /\ conv.returned[k].ok
      /\ conv.returned[k].data = conv.results[k].data

\* C21 after a call whose optimizer failed returned a muxer container
C21_Witness ==
  /\ Len(conv.returned) >= 1
  /\ conv.results[1].ok
  /\ ~conv.returned[1].optimized
  /\ conv.returned[1].ok
  /\ Len(conv.returned[1].data) > 8
  /\ box_type(conv.returned[1].data, 0) = fourcc("ftyp")

\* the buffer starts with a file-type box: its first four bytes are the length
\* of a box tagged ftyp, and the box that follows it starts right at that length
StartsWithFtyp(d) ==
  /\ Len(d) >= 16
  /\ box_type(d, 0) = fourcc("ftyp")
  /\ rd_u32(d, 0) >= 8
  /\ rd_u32(d, 0) + 8 <= Len(d)
  /\ box_type(d, rd_u32(d, 0)) \in {fourcc("moov"), fourcc("mdat")}

\* the payloads of a sequence of frames, one after the other
RECURSIVE FrameBytes(_)
FrameBytes(payloads) ==
  IF payloads = << >> THEN << >> ELSE payloads[1] \o FrameBytes(Tail(payloads))

\* a raw finalize call has just handed out the container
RawReturned ==
  wasm = "gif2video" /\ ret.fn \in {"get_video_buffer", "finalize_video"} /\ ret.ptr = "data"

\* C22: every non-null buffer a finalize call returns starts with the
\* file-type box (length in bytes 0..3, tag ftyp in bytes 4..7) and is not the
\* concatenation of the raw frame bytes.
C22_OutputStartsWithFtyp ==
  /\ RawReturned =>
       /\ StartsWithFtyp(RawOut)
       /\ RawOut # FrameBytes([i \in 1..Len(Deref(frames)) |-> Deref(frames)[i].rgb_data])
  /\ WcFinalized =>
       /\ StartsWithFtyp(WcOut)
       /\ WcOut # FrameBytes([i \in 1..Len(WcFrames) |-> WcFrames[i].data])

\* C22 on a raw output of two frames, and on a compressed output returned by a
\* second finalize of the same session
C22_Witness ==
  \/ RawReturned /\ frame_count = 2 /\ rd_u32(RawOut, 0) = 32
  \/ WcFinalized /\ wc_finalized = 2 /\ rd_u32(WcOut, 0) = 32

\* the payload of the data box of a raw output
RawPayload(d) ==
  LET mdat == FindBox(d, 0, Len(d), "mdat")
  IN  SubSeq(d, mdat + 9, mdat + rd_u32(d, mdat))

\* a finalize call of the single-frame muxer has just returned
SingleReturned ==
  wasm = "single_frame" /\ ret.fn \in {"get_video_buffer", "finalize_video"}

\* C23: a get_video_buffer / finalize_video call never returns or reads the
\* output buffer of a session that init_encoder has replaced: what it returns
\* is built from frames of the current session only, in the multi-frame raw
\* muxer and in the single-frame one.
C23_InitOpensFreshSession ==
  /\ RawReturned =>
       LET n == Field(RawOut, RawStsz, 1)
       IN  /\ n <= Len(Deref(frames))
           /\ RawPayload(RawOut) = FrameBytes([i \in 1..n |-> Deref(frames)[i].rgb_data])
  /\ SingleReturned =>
       /\ ret.ptr # "stale"
       /\ ret.ptr = "data" => RawPayload(RawOut) = Deref(frames)

\* C24: after every append size <= capacity; the capacity changes only when
\* size + requested exceeded it, and then to 2 * (size + requested); when
\* realloc fails the append does not take place (nothing is stored past the
\* old capacity, the buffer is as it was).
C24_AppendsStayInside ==
  [][ /\ tbl'.size <= tbl'.capacity
      /\ (tbl'.capacity # tbl.capacity) =>
            /\ tbl.size + ret'.val > tbl.capacity
            /\ tbl'.capacity = 2 * (tbl.size + ret'.val)
      /\ (ret'.ptr = "null") => (tbl' = tbl)
    ]_vars

\* the current call has run encodeFramesToMp4 and has settled
ConvSettledAfterEncode ==
  /\ conv.run >= 1
  /\ Len(conv.returned) = conv.run
  /\ ~(conv.entry = "convertFrames" /\ conv.delays = << >>)

\* C25: in every execution of encodeFramesToMp4 cleanup is called exactly
\* once, after the result (bytes or error) is determined, and no muxer call
\* follows it; the bytes of a successful result are a copy, not a view on the
\* memory cleanup frees.
C25_CleanupOnceAndLast ==
  /\ conv.cleanups <= 1
  /\ conv.cleanups = 1 => (ret.fn = "cleanup" /\ Len(conv.results) = conv.run)
  /\ ConvSettledAfterEncode => conv.cleanups = 1
  /\ \A k \in 1..Len(conv.results) : conv.results[k].ok => conv.results[k].copied

\* C25 after a failed init_encoder, a failed add_frame and a success
C25_Witness ==
  /\ ConvSettledAfterEncode
  /\ conv.run = 2
  /\ ~conv.results[1].ok
  /\ conv.results[2].ok /\ Len(conv.results[2].data) > 0
  /\ conv.cleanups = 1
  /\ mp4_output = NULL

\* the size the sample-size table at stsz records for sample i, and the sum of
\* the sizes it records for samples 1..n
StszSize(d, stsz, i) ==
  IF Field(d, stsz, 0) # 0 THEN Field(d, stsz, 0) ELSE Field(d, stsz, 1 + i)
StszSum(d, stsz, n) == sum_sizes([i \in 1..n |-> StszSize(d, stsz, i)], n)

\* the file d, with movie box moov, holds the samples (byte strings, in session
\* order) back to back in its only data box, where its tables say they are
SamplesContiguous(d, moov, samples) ==
  LET stbl == StblOf(d, moov)
      stsz == Child(d, stbl, "stsz")
      stco == Child(d, stbl, "stco")
      mdat == FindBox(d, 0, Len(d), "mdat")
      n == Field(d, stsz, 1)
      first == Field(d, stco, 1)
  IN  /\ mdat >= 0 /\ stsz >= 0 /\ stco >= 0
      /\ FindLastBox(d, 0, Len(d), "mdat", -1) = mdat
      /\ n <= Len(samples)
      /\ StszSum(d, stsz, n) = rd_u32(d, mdat) - 8
      /\ first = mdat + 8
      /\ \A i \in 1..n :
           LET at == first + StszSum(d, stsz, i - 1)
           IN  /\ StszSize(d, stsz, i) = Len(samples[i])
               /\ SubSeq(d, at + 1, at + Len(samples[i])) = samples[i]

\* C26: in every finalized output the samples lie back to back, in session
\* order, in the single data box: the recorded sizes sum to the data box
\* length minus 8 and sample i starts at the chunk offset plus the recorded
\* sizes of the samples before it (compressed muxer: a sample is its 4-byte
\* length prefix followed by its bytes).
C26_SamplesContiguous ==
  /\ RawReturned =>
       SamplesContiguous(RawOut, RawMoov,
                         [i \in 1..Len(Deref(frames)) |-> Deref(frames)[i].rgb_data])
  /\ WcFinalized =>
       SamplesContiguous(WcOut, WcMoov,
                         [i \in 1..Len(WcFrames) |->
                            be32(to_u32(WcFrames[i].size)) \o WcFrames[i].data])

\* the compressed half of C26, for the first finalize of a session
C26_WcFirstFinalize ==
  (WcFinalized /\ wc_finalized = 1) =>
    SamplesContiguous(WcOut, WcMoov,
                      [i \in 1..Len(WcFrames) |->
                         be32(to_u32(WcFrames[i].size)) \o WcFrames[i].data])

\* C27: the promise a call of encodeFramesWithWebCodecs returns is eventually
\* settled, whatever the encoder callbacks do, it is settled once, and when it
\* is settled the muxer session has been cleaned up.
C27_SettlesAndCleansUp ==
  /\ <>(conv.outer # "pending")
  /\ [][conv.outer # "pending" => conv'.outer = conv.outer]_vars
  /\ [](conv.outer # "pending" => muxer = NULL)

\* the safety half of C27: a settled call has cleaned the muxer up
C27_SettledIsCleanedUp == conv.outer # "pending" => muxer = NULL

\* call p of optimizeMP4 has chosen its paths and has not settled
OptimizeRunning(p) == conv.pc[p] \notin {"called", "settled"}

\* C28: two optimizeMP4 calls that run at the same time have different
\* temporary paths; each call that reads an output reads the one ffmpeg made
\* from its own input; once both calls have settled no temporary file is left.
C28_TempFilesDisjoint ==
  /\ \A p, q \in OptimizeCalls :
       (p # q /\ OptimizeRunning(p) /\ OptimizeRunning(q)) => conv.stamp[p] # conv.stamp[q]
  /\ \A p \in OptimizeCalls :
       (conv.pc[p] \in {"unlink input", "unlink output", "settled"}) => conv.out[p] = 10 + p
  /\ (\A p \in OptimizeCalls : conv.pc[p] = "settled") => (\A f \in TempPaths : conv.fs[f] = 0)

\* C30: a conversion never resolves with a buffer of no bytes: a call that
\* resolves (also one given a GIF that decodes to zero frames, which should
\* reject) hands back at least one byte.
C30_NeverResolvesEmpty ==
  conv.entry \in {"convertFrames", "convertGifBuffer"} =>
    \A k \in 1..Len(conv.returned) :
      conv.returned[k].ok => Len(conv.returned[k].data) > 0

\* floor(us * 30 / 1000 / n) over the integers, for us < 2^31 / 3
ExactTimescaleUnits(us, n) == (us * 3) \div (100 * n)

\* C29: compressed muxer, first finalize, timestamps in non-decreasing order:
\* the mdhd duration is floor(last_timestamp * 30 / 1000) and, for more than
\* one sample, the stts delta is floor((last - first) * 30 / (N - 1) / 1000),
\* both as computed over unbounded integers.
C29_TimingWithoutWraparound ==
  (WcFinalized /\ wc_finalized = 1) =>
    LET d == WcOut
        n == Len(WcFrames)
        first == u32_int(WcFrames[1].timestamp)
        last == u32_int(WcFrames[n].timestamp)
        mdhd == Child(d, MdiaOf(d, WcMoov), "mdhd")
        stts == Child(d, StblOf(d, WcMoov), "stts")
    IN  first <= last =>
          /\ Field(d, mdhd, 3) = ExactTimescaleUnits(last, 1)
          /\ n > 1 => Field(d, stts, 2) = ExactTimescaleUnits(last - first, n - 1)

====
